---- MODULE Spec2Model ----
(***************************************************************************)
(* The force-directed schema-graph layout of the DatabaseView              *)
(* (frontend/src/views/DatabaseView.tsx): the useForceLayout hook, its     *)
(* effect life cycle under React, and the SchemaGraph render that consumes *)
(* the position map; and the asynchronous handlers of the chat view, the   *)
(* dashboard, the table detail view and the database context.              *)
(*                                                                         *)
(* JavaScript numbers are IEEE-754 doubles.  They are modelled here as     *)
(* binary floating-point numbers with the exponent range of a double and a *)
(* 15-bit significand (TLC integers are 32 bits wide, so the product of    *)
(* two significands fits).  Overflow to Infinity, NaN and the rules for    *)
(* them follow IEEE-754; only the rounding precision is coarser.           *)
(***************************************************************************)
EXTENDS Integers, Sequences, FiniteSets, TLC

VARIABLES
    mounted,    \* SchemaGraph is in the tree (its hook state exists)
    nodes,      \* the nodes prop of the last render
    edges,      \* the edges prop of the last render
    positions,  \* useState: the position map
    deps,       \* [nodes.length, edges.length] of the last effect run, or NoDeps
    pc,         \* where React is: "idle", "effect" (render committed), "rerender";
                \* for the effect body alone: "ready", "done", "extended";
                \* step by step: "entry", "loop", "done"
    view,       \* what the last SchemaGraph render returned
    steps,      \* simulation steps executed by the last effect run
    trig,       \* history: the <<nodes, edges>> of the last simulation run
    last,       \* history: what the last effect check did
    snap,       \* history: one other run kept for comparison, <<[input, output]>>;
                \* for the effect body step by step: its locals, <<[pos, keys, seed, prev]>>
    messages,        \* ChatProvider: useState messages (rawMessages in ChatView)
    isLoading,       \* ChatProvider: useState isLoading
    localMessages,   \* ChatView: useState localMessages
    status,          \* SqlExecutionBlock: useState status
    blockResult,     \* SqlExecutionBlock: useState result
    error,           \* SqlExecutionBlock: useState error
    chartType,       \* SqlExecutionBlock: useState chartType
    showChart,       \* SqlExecutionBlock: useState showChart
    autoRun,         \* SqlExecutionBlock: the autoRun prop
    connections,     \* DatabaseProvider: useState connections
    activeService,   \* DatabaseProvider: useState activeService
    profileCache,    \* DatabaseProvider: useState profileCache
    creds,           \* localStorage[CRED_KEY]
    isPolling,       \* DashboardView: useState isPolling
    selected,        \* DatabaseView: useState selected
    tables,          \* DatabaseView: useState tables
    loadingLineage,  \* DatabaseView: useState loadingLineage
    reqs             \* the asynchronous calls awaiting a response, each with the
                     \* values its closure captured

\* The state of the views other than the schema graph.
app == <<messages, isLoading, localMessages, status, blockResult, error, chartType,
         showChart, autoRun, connections, activeService, profileCache, creds,
         isPolling, selected, tables, loadingLineage, reqs>>
\* The state of the schema graph.
graph == <<mounted, nodes, edges, positions, deps, pc, view, steps, trig, last, snap>>

vars == <<mounted, nodes, edges, positions, deps, pc, view, steps, trig, last, snap,
          messages, isLoading, localMessages, status, blockResult, error, chartType,
          showChart, autoRun, connections, activeService, profileCache, creds,
          isPolling, selected, tables, loadingLineage, reqs>>

\* null
Null == "null"

\* The other views as they are constructed: every useState at its initial
\* value, an empty localStorage, nothing in flight.
AppIdle ==
    /\ messages = <<>>
    /\ isLoading = FALSE
    /\ localMessages = <<>>
    /\ status = "idle"
    /\ blockResult = Null
    /\ error = Null
    /\ chartType = "bar"
    /\ showChart = FALSE
    /\ autoRun = FALSE
    /\ connections = <<>>
    /\ activeService = Null
    /\ profileCache = <<>>
    /\ creds = <<>>
    /\ isPolling = FALSE
    /\ selected = ""
    /\ tables = <<>>
    /\ loadingLineage = Null
    /\ reqs = {}

(***************************************************************************)
(* Call by value: F applied to the value of v.  It stands for a const      *)
(* declaration of the source, const x = v; ...x...                         *)
(***************************************************************************)
Const(v, F(_)) == CHOOSE r \in {F(x) : x \in {v}} : TRUE

(***************************************************************************)
(* Numbers                                                                 *)
(***************************************************************************)
MHi == 2^15
MLo == 2^14
GuardBits == 2^14
\* A finite value s * m * 2^e with MLo <= m < MHi overflows a double when it
\* reaches 2^1024, and is below the smallest subnormal under 2^-1074.
EMax == 1024 - 15
EMin == (0 - 1074) - 14

Pow2 == [k \in 0..30 |-> 2^k]

Sign == {-1, 1}
Float == [k : {"fin", "inf", "nan"}, s : Sign, m : Nat, e : Int]

Zero == [k |-> "fin", s |-> 1, m |-> 0, e |-> 0]
NaN == [k |-> "nan", s |-> 1, m |-> 0, e |-> 0]
Inf(s) == [k |-> "inf", s |-> s, m |-> 0, e |-> 0]

IsNaN(a) == a.k = "nan"
IsZero(a) == a.k = "fin" /\ a.m = 0
\* Number.isFinite
IsFinite(a) == a.k = "fin"

\* The number of bits of m, 0 < m < 2^31.
BitLen[m \in Nat] ==
    IF m < Pow2[16]
    THEN IF m < Pow2[8]
         THEN IF m < Pow2[4]
              THEN IF m < Pow2[2] THEN (IF m < Pow2[1] THEN 1 ELSE 2)
                                  ELSE (IF m < Pow2[3] THEN 3 ELSE 4)
              ELSE IF m < Pow2[6] THEN (IF m < Pow2[5] THEN 5 ELSE 6)
                                  ELSE (IF m < Pow2[7] THEN 7 ELSE 8)
         ELSE IF m < Pow2[12]
              THEN IF m < Pow2[10] THEN (IF m < Pow2[9] THEN 9 ELSE 10)
                                   ELSE (IF m < Pow2[11] THEN 11 ELSE 12)
              ELSE IF m < Pow2[14] THEN (IF m < Pow2[13] THEN 13 ELSE 14)
                                   ELSE (IF m < Pow2[15] THEN 15 ELSE 16)
    ELSE IF m < Pow2[24]
         THEN IF m < Pow2[20]
              THEN IF m < Pow2[18] THEN (IF m < Pow2[17] THEN 17 ELSE 18)
                                   ELSE (IF m < Pow2[19] THEN 19 ELSE 20)
              ELSE IF m < Pow2[22] THEN (IF m < Pow2[21] THEN 21 ELSE 22)
                                   ELSE (IF m < Pow2[23] THEN 23 ELSE 24)
         ELSE IF m < Pow2[28]
              THEN IF m < Pow2[26] THEN (IF m < Pow2[25] THEN 25 ELSE 26)
                                   ELSE (IF m < Pow2[27] THEN 27 ELSE 28)
              ELSE IF m < Pow2[30] THEN (IF m < Pow2[29] THEN 29 ELSE 30)
                                   ELSE 31

\* The range of a double: overflow to Infinity, underflow to zero.
Ranged[s \in Sign, m \in Nat, e \in Int] ==
    IF e > EMax THEN Inf(s)
    ELSE IF e < EMin THEN Zero
    ELSE [k |-> "fin", s |-> s, m |-> m, e |-> e]

\* Rounding of s * m * 2^e (0 <= m < 2^31) to the nearest representable value.
Norm[s \in Sign, m \in Nat, e \in Int] ==
    IF m = 0 THEN Zero
    ELSE LET bl == BitLen[m]
         IN  IF bl <= 15
             THEN Ranged[s, m * Pow2[15 - bl], e - (15 - bl)]
             ELSE LET sh == bl - 15
                      r == (m + Pow2[sh - 1]) \div Pow2[sh]
                  IN  IF r = MHi THEN Ranged[s, MLo, e + sh + 1]
                                 ELSE Ranged[s, r, e + sh]

FromInt[n \in Int] == IF n < 0 THEN Norm[-1, 0 - n, 0] ELSE Norm[1, n, 0]

Neg[a \in Float] == IF a.k = "nan" \/ IsZero(a) THEN a ELSE [a EXCEPT !.s = 0 - a.s]

Add[a \in Float, b \in Float] ==
    IF a.k = "nan" \/ b.k = "nan" THEN NaN
    ELSE IF a.k = "inf" THEN (IF b.k = "inf" /\ b.s # a.s THEN NaN ELSE a)
    ELSE IF b.k = "inf" THEN b
    ELSE IF a.m = 0 THEN b
    ELSE IF b.m = 0 THEN a
    ELSE LET hi == IF a.e >= b.e THEN a ELSE b
             lo == IF a.e >= b.e THEN b ELSE a
             d == hi.e - lo.e
             mh == hi.m * GuardBits
             ml == IF d > 29 THEN 0 ELSE (lo.m * GuardBits) \div Pow2[d]
             sum == hi.s * mh + lo.s * ml
         IN  IF sum < 0 THEN Norm[-1, 0 - sum, hi.e - 14]
                        ELSE Norm[1, sum, hi.e - 14]

Sub[a \in Float, b \in Float] == Add[a, Neg[b]]

Mul[a \in Float, b \in Float] ==
    IF a.k = "nan" \/ b.k = "nan" THEN NaN
    ELSE IF a.k = "inf" \/ b.k = "inf"
         THEN (IF IsZero(a) \/ IsZero(b) THEN NaN ELSE Inf(a.s * b.s))
    ELSE Norm[a.s * b.s, a.m * b.m, a.e + b.e]

Div[a \in Float, b \in Float] ==
    IF a.k = "nan" \/ b.k = "nan" THEN NaN
    ELSE IF a.k = "inf" THEN (IF b.k = "inf" THEN NaN ELSE Inf(a.s * b.s))
    ELSE IF b.k = "inf" THEN Zero
    ELSE IF b.m = 0 THEN (IF a.m = 0 THEN NaN ELSE Inf(a.s * b.s))
    ELSE Norm[a.s * b.s, (a.m * MHi) \div b.m, (a.e - b.e) - 15]

\* Newton's iteration from above: the integer square root of n.
SqrtIter[n \in Nat, x \in Nat] ==
    LET y == (x + n \div x) \div 2
    IN  IF y >= x THEN x ELSE SqrtIter[n, y]

\* Math.sqrt
Sqrt[a \in Float] ==
    IF a.k = "nan" THEN NaN
    ELSE IF IsZero(a) THEN Zero
    ELSE IF a.s < 0 THEN NaN
    ELSE IF a.k = "inf" THEN a
    ELSE LET odd == (a.e % 2) # 0
             m2 == IF odd THEN a.m * 2 ELSE a.m
             e2 == IF odd THEN a.e - 1 ELSE a.e
         IN  Norm[1, SqrtIter[m2 * GuardBits, MHi], (e2 - 14) \div 2]

\* a < b on numbers (false when either is NaN).
Less[a \in Float, b \in Float] ==
    IF a.k = "nan" \/ b.k = "nan" THEN FALSE
    ELSE IF a = b THEN FALSE
    ELSE IF a.k = "inf" THEN a.s < 0
    ELSE IF b.k = "inf" THEN b.s > 0
    ELSE IF a.m = 0 THEN b.s > 0
    ELSE IF b.m = 0 THEN a.s < 0
    ELSE IF a.s # b.s THEN a.s < b.s
    ELSE LET magLess == a.e < b.e \/ (a.e = b.e /\ a.m < b.m)
         IN  IF a.s > 0 THEN magLess ELSE ~magLess

\* Math.abs
MathAbs(a) == IF a.k = "nan" THEN a ELSE [a EXCEPT !.s = 1]

\* Math.max(a, b): NaN when either is NaN.
MathMax[a \in Float, b \in Float] ==
    IF a.k = "nan" \/ b.k = "nan" THEN NaN
    ELSE IF Less[a, b] THEN b ELSE a

\* Math.min(acc, ...xs from index i): NaN when any argument is NaN.
MathMinFrom[xs \in Seq(Float), i \in Nat, acc \in Float] ==
    IF i > Len(xs) THEN acc
    ELSE IF acc.k = "nan" \/ xs[i].k = "nan" THEN NaN
    ELSE MathMinFrom[xs, i + 1, IF Less[xs[i], acc] THEN xs[i] ELSE acc]

\* Math.min(...xs): Infinity for no argument.
MathMin(xs) == MathMinFrom[xs, 1, Inf(1)]

\* Math.ceil(Math.sqrt(n)) for a list length n: exact on integers this small.
CeilSqrt(n) == CHOOSE c \in 0..n : c * c >= n /\ \A d \in 0..(c - 1) : d * d < n

(***************************************************************************)
(* Types                                                                   *)
(***************************************************************************)
\* LineageNode: the fields the layout and the render read.
LineageNode(service, id) == [service |-> service, id |-> id]
\* LineageEdge: the fields the layout and the render read.
LineageEdge(service, source, target) ==
    [service |-> service, source |-> source, target |-> target]

\* A variant of the key that leaves the service out.
NodeKeyIdOnly(service, id) == id

\* `${service}:${id}`
NodeKey(service, id) == service \o ":" \o id

\* Record<string, ...> with no entry
EmptyMap == <<>>

Has(map, key) == key \in DOMAIN map

(***************************************************************************)
(* useForceLayout: the effect body                                         *)
(***************************************************************************)
REPEL == 18000
ATTRACT == Div[FromInt[4], FromInt[100]]
DAMPING == Div[FromInt[82], FromInt[100]]
ITERATIONS == 200
GAP == 220
PAD == 40
OriginX == 400
OriginY == 300

\* const ideal = GAP * 1.6
Ideal == Mul[FromInt[GAP], Div[FromInt[16], FromInt[10]]]
One == FromInt[1]
RepelF == FromInt[REPEL]
PadF == FromInt[PAD]

\* Math.cos((2 * Math.PI * i) / n) for i = 0 .. n-1, as <<sign, significand, exponent>>
CosTable ==
    <<
       <<<<1, 16384, -14>>>>,
       <<<<1, 16384, -14>>, <<-1, 16384, -14>>>>,
       <<<<1, 16384, -14>>, <<-1, 16384, -15>>, <<-1, 16384, -15>>>>,
       <<<<1, 16384, -14>>, <<1, 18073, -68>>, <<-1, 16384, -14>>, <<-1, 27109, -67>>>>,
       <<<<1, 16384, -14>>, <<1, 20252, -16>>, <<-1, 26510, -15>>, <<-1, 26510, -15>>, <<1, 20252, -16>>>>,
       <<<<1, 16384, -14>>, <<1, 16384, -15>>, <<-1, 16384, -15>>, <<-1, 16384, -14>>, <<-1, 16384, -15>>, <<1, 16384, -15>>>>
    >>
\* Math.sin((2 * Math.PI * i) / n) for i = 0 .. n-1
SinTable ==
    <<
       <<<<1, 0, 0>>>>,
       <<<<1, 0, 0>>, <<1, 18073, -67>>>>,
       <<<<1, 0, 0>>, <<1, 28378, -15>>, <<-1, 28378, -15>>>>,
       <<<<1, 0, 0>>, <<1, 16384, -14>>, <<1, 18073, -67>>, <<-1, 16384, -14>>>>,
       <<<<1, 0, 0>>, <<1, 31164, -15>>, <<1, 19261, -15>>, <<-1, 19261, -15>>, <<-1, 31164, -15>>>>,
       <<<<1, 0, 0>>, <<1, 28378, -15>>, <<1, 28378, -15>>, <<1, 18073, -67>>, <<-1, 28378, -15>>, <<-1, 28378, -15>>>>
    >>

Trig(t) == IF t[2] = 0 THEN Zero ELSE [k |-> "fin", s |-> t[1], m |-> t[2], e |-> t[3]]
\* Math.cos(angle), angle = (2 * Math.PI * i) / n
MathCos(i, n) == Trig(CosTable[n][i + 1])
\* Math.sin(angle)
MathSin(i, n) == Trig(SinTable[n][i + 1])

\* const COLS = Math.ceil(Math.sqrt(nodes.length))
COLS(n) == CeilSqrt(n)

\* const r = GAP * Math.max(1, COLS / 2)
SeedRadius(n) ==
    Mul[FromInt[GAP], MathMax[One, Div[FromInt[COLS(n)], FromInt[2]]]]

\* A variant of the seeding that puts every node on the origin of the circle.
SeedPointAtOrigin(i, n) ==
    [x |-> FromInt[OriginX], y |-> FromInt[OriginY], vx |-> Zero, vy |-> Zero]

\* pos[key] = { x: 400 + r cos(angle), y: 300 + r sin(angle), vx: 0, vy: 0 }
SeedPoint(i, n) ==
    [x |-> Add[FromInt[OriginX], Mul[SeedRadius(n), MathCos(i, n)]],
     y |-> Add[FromInt[OriginY], Mul[SeedRadius(n), MathSin(i, n)]],
     vx |-> Zero, vy |-> Zero]

\* pos[key] = value: a new key goes last in Object.keys order, a key already
\* present keeps its place and takes the new value.
Assign(st, key, value) ==
    IF Has(st.pos, key)
    THEN [st EXCEPT !.pos = [@ EXCEPT ![key] = value]]
    ELSE [pos |-> (key :> value) @@ st.pos, keys |-> Append(st.keys, key)]

RECURSIVE SeedFrom(_, _, _)
\* nodes.forEach((n, i) => { pos[`${n.service}:${n.id}`] = seed(i) }), from index i (1-based)
SeedFrom(ns, i, st) ==
    IF i > Len(ns) THEN st
    ELSE Const(Assign(st, NodeKey(ns[i].service, ns[i].id), SeedPoint(i - 1, Len(ns))),
               LAMBDA next : SeedFrom(ns, i + 1, next))

\* A variant of the seeding that starts at the second node.
SeedSkipFirst(ns) == SeedFrom(ns, 2, [pos |-> EmptyMap, keys |-> <<>>])

Seed(ns) == SeedFrom(ns, 1, [pos |-> EmptyMap, keys |-> <<>>])

\* A variant of the repulsion with the signs exchanged: the pair is drawn together.
RepelPairInward(pos, ka, kb) ==
    Const(Sub[pos[kb].x, pos[ka].x], LAMBDA dx :
    Const(Sub[pos[kb].y, pos[ka].y], LAMBDA dy :
    Const(MathMax[Add[Mul[dx, dx], Mul[dy, dy]], One], LAMBDA dist2 :
    Const(Sqrt[dist2], LAMBDA dist :
    Const(Div[RepelF, dist2], LAMBDA force :
    Const(Mul[Div[dx, dist], force], LAMBDA fx :
    Const(Mul[Div[dy, dist], force], LAMBDA fy :
    Const([pos EXCEPT ![ka] = [@ EXCEPT !.vx = Add[@, fx], !.vy = Add[@, fy]]], LAMBDA p1 :
          [p1 EXCEPT ![kb] = [@ EXCEPT !.vx = Sub[@, fx], !.vy = Sub[@, fy]]]))))))))

\* One pair of the repulsion loop.
RepelPair(pos, ka, kb) ==
    Const(Sub[pos[kb].x, pos[ka].x], LAMBDA dx :
    Const(Sub[pos[kb].y, pos[ka].y], LAMBDA dy :
    Const(MathMax[Add[Mul[dx, dx], Mul[dy, dy]], One], LAMBDA dist2 :
    Const(Sqrt[dist2], LAMBDA dist :
    Const(Div[RepelF, dist2], LAMBDA force :
    Const(Mul[Div[dx, dist], force], LAMBDA fx :
    Const(Mul[Div[dy, dist], force], LAMBDA fy :
    Const([pos EXCEPT ![ka] = [@ EXCEPT !.vx = Sub[@, fx], !.vy = Sub[@, fy]]], LAMBDA p1 :
          [p1 EXCEPT ![kb] = [@ EXCEPT !.vx = Add[@, fx], !.vy = Add[@, fy]]]))))))))

RECURSIVE RepelFrom(_, _, _, _)
\* for (a ...) for (b = a + 1 ...), from the pair (a, b) on
RepelFrom(pos, keys, a, b) ==
    IF a > Len(keys) THEN pos
    ELSE IF b > Len(keys)
    THEN Const(a + 1, LAMBDA a1 : RepelFrom(pos, keys, a1, a1 + 1))
    ELSE Const(RepelPair(pos, keys[a], keys[b]), LAMBDA next :
         Const(b + 1, LAMBDA b1 : RepelFrom(next, keys, a, b1)))

\* A variant of the spring whose rest length is GAP instead of GAP * 1.6.
PullToGap(pos, sk, tk) ==
    Const(Sub[pos[tk].x, pos[sk].x], LAMBDA dx :
    Const(Sub[pos[tk].y, pos[sk].y], LAMBDA dy :
    Const(Sqrt[Add[Mul[dx, dx], Mul[dy, dy]]], LAMBDA root :
    Const(IF IsNaN(root) \/ IsZero(root) THEN One ELSE root, LAMBDA dist :
    Const(Mul[Sub[dist, FromInt[GAP]], ATTRACT], LAMBDA force :
    Const(Mul[Div[dx, dist], force], LAMBDA fx :
    Const(Mul[Div[dy, dist], force], LAMBDA fy :
    Const([pos EXCEPT ![sk] = [@ EXCEPT !.vx = Add[@, fx], !.vy = Add[@, fy]]], LAMBDA p1 :
          [p1 EXCEPT ![tk] = [@ EXCEPT !.vx = Sub[@, fx], !.vy = Sub[@, fy]]]))))))))

\* A variant of the spring that moves the source only.
PullSourceOnly(pos, sk, tk) ==
    Const(Sub[pos[tk].x, pos[sk].x], LAMBDA dx :
    Const(Sub[pos[tk].y, pos[sk].y], LAMBDA dy :
    Const(Sqrt[Add[Mul[dx, dx], Mul[dy, dy]]], LAMBDA root :
    Const(IF IsNaN(root) \/ IsZero(root) THEN One ELSE root, LAMBDA dist :
    Const(Mul[Sub[dist, Ideal], ATTRACT], LAMBDA force :
    Const(Mul[Div[dx, dist], force], LAMBDA fx :
    Const(Mul[Div[dy, dist], force], LAMBDA fy :
          [pos EXCEPT ![sk] = [@ EXCEPT !.vx = Add[@, fx], !.vy = Add[@, fy]]])))))))

\* The body of the edge callback once both endpoints are known to be placed.
Pull(pos, sk, tk) ==
    Const(Sub[pos[tk].x, pos[sk].x], LAMBDA dx :
    Const(Sub[pos[tk].y, pos[sk].y], LAMBDA dy :
    Const(Sqrt[Add[Mul[dx, dx], Mul[dy, dy]]], LAMBDA root :
    Const(IF IsNaN(root) \/ IsZero(root) THEN One ELSE root, LAMBDA dist :
    Const(Mul[Sub[dist, Ideal], ATTRACT], LAMBDA force :
    Const(Mul[Div[dx, dist], force], LAMBDA fx :
    Const(Mul[Div[dy, dist], force], LAMBDA fy :
    Const([pos EXCEPT ![sk] = [@ EXCEPT !.vx = Add[@, fx], !.vy = Add[@, fy]]], LAMBDA p1 :
          [p1 EXCEPT ![tk] = [@ EXCEPT !.vx = Sub[@, fx], !.vy = Sub[@, fy]]]))))))))

\* A variant of the edge callback that skips an edge only when its source is
\* not placed: a missing target leaves the source nudged.
SpringSourceOnly(pos, e) ==
    Const(NodeKey(e.service, e.source), LAMBDA sk :
    Const(NodeKey(e.service, e.target), LAMBDA tk :
    IF ~Has(pos, sk) THEN pos
    ELSE IF ~Has(pos, tk)
    THEN [pos EXCEPT ![sk] = [@ EXCEPT !.vx = Add[@, One], !.vy = Add[@, One]]]
    ELSE Pull(pos, sk, tk)))

\* A variant of the edge callback with the guard the wrong way round: it
\* returns when both endpoints are placed, and so applies no force at all.
SpringGuardInverted(pos, e) == pos

\* One edge of the attraction loop: if (!ps || !pt) return; ...
Spring(pos, e) ==
    Const(NodeKey(e.service, e.source), LAMBDA sk :
    Const(NodeKey(e.service, e.target), LAMBDA tk :
    IF ~Has(pos, sk) \/ ~Has(pos, tk) THEN pos
    ELSE Pull(pos, sk, tk)))

RECURSIVE AttractOnce(_, _, _)
\* A variant of the attraction loop that pulls each pair of nodes once, however
\* many edges join it.
AttractOnce(st, es, hi) ==
    IF st.done >= hi THEN st
    ELSE Const(es[st.done + 1], LAMBDA e :
         AttractOnce([pos |-> IF \E j \in 1..st.done :
                                    /\ es[j].service = e.service
                                    /\ {es[j].source, es[j].target} = {e.source, e.target}
                                THEN st.pos
                                ELSE Spring(st.pos, e),
                      done |-> st.done + 1], es, hi))

RECURSIVE AttractTo(_, _, _)
\* edges.forEach(e => ...) from the edge after st.done up to edge hi, in list
\* order (the remaining range is halved so that the evaluation does not nest
\* once per edge).
AttractTo(st, es, hi) ==
    IF st.done >= hi THEN st
    ELSE IF st.done + 1 = hi
         THEN [pos |-> Spring(st.pos, es[hi]), done |-> hi]
    ELSE Const(AttractTo(st, es, (st.done + hi) \div 2), LAMBDA half :
               AttractTo(half, es, hi))

\* p.x += p.vx; p.y += p.vy; p.vx *= DAMPING; p.vy *= DAMPING
Integrate(p) ==
    [x |-> Add[p.x, p.vx], y |-> Add[p.y, p.vy],
     vx |-> Mul[p.vx, DAMPING], vy |-> Mul[p.vy, DAMPING]]

RECURSIVE IntegrateFrom(_, _, _)
\* keys.forEach(k => ...), from index i on
IntegrateFrom(pos, keys, i) ==
    IF i > Len(keys) THEN pos
    ELSE Const([pos EXCEPT ![keys[i]] = Integrate(@)], LAMBDA next :
         Const(i + 1, LAMBDA i1 : IntegrateFrom(next, keys, i1)))

\* One pass of the body of the iteration loop.
Step(pos, keys, es) ==
    Const(RepelFrom(pos, keys, 1, 2), LAMBDA repelled :
    Const(AttractTo([pos |-> repelled, done |-> 0], es, Len(es)), LAMBDA pulled :
          IntegrateFrom(pulled.pos, keys, 1)))

RECURSIVE Simulate(_, _, _, _)
\* for (let iter = st.steps; iter < hi; iter++): the positions after the loop
\* and the number of passes made so far (the remaining range is halved so that
\* the evaluation does not nest once per pass).
Simulate(st, keys, es, hi) ==
    IF st.steps >= hi THEN st
    ELSE IF st.steps + 1 = hi
         THEN [pos |-> Step(st.pos, keys, es), steps |-> st.steps + 1]
    ELSE Const(Simulate(st, keys, es, (st.steps + hi) \div 2), LAMBDA half :
               Simulate(half, keys, es, hi))

\* Object.values(pos).map(p => p.x) (axis "x") or p.y (axis "y"), in key order
Values(pos, keys, axis) ==
    [i \in 1..Len(keys) |-> IF axis = "x" THEN pos[keys[i]].x ELSE pos[keys[i]].y]

RECURSIVE ShiftFrom(_, _, _, _, _, _)
\* Object.entries(pos).forEach(([k, p]) => { result[k] = {x: p.x - minX + PAD, ...} })
ShiftFrom(pos, keys, minX, minY, i, result) ==
    IF i > Len(keys) THEN result
    ELSE Const((keys[i] :> [x |-> Add[Sub[pos[keys[i]].x, minX], PadF],
                            y |-> Add[Sub[pos[keys[i]].y, minY], PadF]]) @@ result,
               LAMBDA next :
         Const(i + 1, LAMBDA i1 : ShiftFrom(pos, keys, minX, minY, i1, next)))

\* Normalise: shift so min x/y = PAD
Normalise(pos, keys) ==
    Const(MathMin(Values(pos, keys, "x")), LAMBDA minX :
    Const(MathMin(Values(pos, keys, "y")), LAMBDA minY :
          ShiftFrom(pos, keys, minX, minY, 1, EmptyMap)))

\* A variant of the effect body without the early return on an empty list.
ForceLayoutNoGuard(ns, es) ==
    Const(Seed(ns), LAMBDA seeded :
    Const(Simulate([pos |-> seeded.pos, steps |-> 0], seeded.keys, es, ITERATIONS),
          LAMBDA final :
          [positions |-> Normalise(final.pos, seeded.keys), steps |-> final.steps]))

\* The body of the effect: the map handed to setPositions, and the passes made.
ForceLayout(ns, es) ==
    IF Len(ns) = 0 THEN [positions |-> EmptyMap, steps |-> 0]
    ELSE Const(Seed(ns), LAMBDA seeded :
         Const(Simulate([pos |-> seeded.pos, steps |-> 0], seeded.keys, es, ITERATIONS),
               LAMBDA final :
               [positions |-> Normalise(final.pos, seeded.keys), steps |-> final.steps]))

(***************************************************************************)
(* Inputs                                                                  *)
(***************************************************************************)
MaxNodes == 2
MaxEdges == 2
ParallelEdges == 100
MaxExtra == 1
DetEdges == 1
StepNodes == 3
StepEdges == 2
PortFar == 400
SpringEdges == 3
SeedNodes == 5
MaxWords == 2
MaxMessages == 4
MaxConnections == 2
MaxInFlight == 2

Services == {"s1"}
Ids == {"a", "b"}
NodeValues == {LineageNode(sv, id) : sv \in Services, id \in Ids}
EdgeValues == {LineageEdge("s1", "a", "b"), LineageEdge("s1", "a", "a")}

SeqsUpTo(S, n) == UNION {[1..k -> S] : k \in 0..n}
NodeLists == SeqsUpTo(NodeValues, MaxNodes)
EdgeLists == SeqsUpTo(EdgeValues, MaxEdges)
Inputs == NodeLists \X EdgeLists

\* Two tables joined by very many relationships.
StressNodes == <<LineageNode("s1", "a"), LineageNode("s1", "b")>>
StressEdges == [i \in 1..ParallelEdges |-> LineageEdge("s1", "a", "b")]

\* Edges that name a table or a service no node list of NodeLists has.
DanglingValues == {LineageEdge("s1", "a", "z"), LineageEdge("s2", "a", "b")}

\* The inputs of the runs that are compared with one another.
DetInputs == {in \in Inputs : Len(in[2]) <= DetEdges}

\* The tables of the runs followed step by step: n tables of one service with
\* n different ids.
IdSeq == <<"a", "b", "c", "d", "e", "f">>
Tables(n) == [i \in 1..n |-> LineageNode("s1", IdSeq[i])]
\* One table id in two services.
CrossService == <<LineageNode("s1", "a"), LineageNode("s2", "a")>>
StepNodeLists == {Tables(n) : n \in 2..StepNodes} \cup {CrossService}
StepEdgeValues ==
    {LineageEdge("s1", "a", "b"), LineageEdge("s1", "b", "a"), LineageEdge("s1", "b", "c")}
StepInputs == StepNodeLists \X SeqsUpTo(StepEdgeValues, StepEdges)

\* The effect body on every input of Inputs, computed once: pairs <<input, result>>.
LayoutTable == {<<in, ForceLayout(in[1], in[2])>> : in \in Inputs}
\* The effect body on ns, es.
Layout(ns, es) ==
    IF <<ns, es>> \in Inputs
    THEN (CHOOSE p \in LayoutTable : p[1] = <<ns, es>>)[2]
    ELSE ForceLayout(ns, es)

KeySet(ns) == {NodeKey(ns[i].service, ns[i].id) : i \in 1..Len(ns)}

\* es with e put in after its first k edges.
InsertAt(es, k, e) == SubSeq(es, 1, k) \o <<e>> \o SubSeq(es, k + 1, Len(es))

\* Every x and y of the map is a finite number.
AllFinite(map) == \A k \in DOMAIN map : IsFinite(map[k].x) /\ IsFinite(map[k].y)

\* The edges of es whose two endpoint keys are keys of ns, in order.
Live(ns, es) ==
    SelectSeq(es, LAMBDA e : /\ NodeKey(e.service, e.source) \in KeySet(ns)
                             /\ NodeKey(e.service, e.target) \in KeySet(ns))

\* Math.sqrt(dx * dx + dy * dy) between two points.
Distance(p, q) ==
    Const(Sub[q.x, p.x], LAMBDA dx :
    Const(Sub[q.y, p.y], LAMBDA dy :
          Sqrt[Add[Mul[dx, dx], Mul[dy, dy]]]))

RECURSIVE SumFrom(_, _, _, _)
\* The sum of field f ("x", "y", "vx" or "vy") over the entries of pos from key i on.
SumFrom(pos, keys, f, i) ==
    IF i > Len(keys) THEN Zero
    ELSE Const(SumFrom(pos, keys, f, i + 1), LAMBDA rest : Add[pos[keys[i]][f], rest])

\* a and b differ by less than one unit (a pixel).
Close(a, b) == IsFinite(a) /\ IsFinite(b) /\ Less[MathAbs(Sub[a, b]), One]

\* The velocity of p along the direction from p to q.
Toward(p, q) == Add[Mul[p.vx, Sub[q.x, p.x]], Mul[p.vy, Sub[q.y, p.y]]]

\* Math.sqrt(vx * vx + vy * vy)
Speed(p) == Sqrt[Add[Mul[p.vx, p.vx], Mul[p.vy, p.vy]]]

\* a is b to within one part in 256.
CloseRel(a, b) ==
    \/ a = b
    \/ /\ IsFinite(a) /\ IsFinite(b)
       /\ Less[Mul[MathAbs(Sub[a, b]), FromInt[256]], MathAbs(b)]

\* d is within a tenth of the ideal spring length.
NearIdeal(d) ==
    /\ IsFinite(d)
    /\ ~Less[d, Mul[Ideal, Div[FromInt[9], FromInt[10]]]]
    /\ ~Less[Mul[Ideal, Div[FromInt[11], FromInt[10]]], d]

\* An edge one of whose endpoint keys is not a key of ns.
Dangling(ns, e) ==
    \/ NodeKey(e.service, e.source) \notin KeySet(ns)
    \/ NodeKey(e.service, e.target) \notin KeySet(ns)

\* e joins two different nodes of ns.
Joins(ns, e) == ~Dangling(ns, e) /\ e.source # e.target

(***************************************************************************)
(* SchemaGraph: the render                                                 *)
(***************************************************************************)
NoDeps == <<>>
NoTrig == <<>>
NoSnap == <<>>
NoView == [kind |-> "none", cards |-> EmptyMap, lines |-> {}, from |-> NoTrig]

\* What SchemaGraph returns for the props ns, es and the hook's current map:
\* the two early returns, else the cards and edge lines it draws.  from is the
\* input the map was computed for (history).
Render(ns, es, map, from) ==
    IF Len(ns) = 0
    THEN [kind |-> "noTables", cards |-> EmptyMap, lines |-> {}, from |-> from]
    ELSE IF DOMAIN map = {}
    THEN [kind |-> "calculating", cards |-> EmptyMap, lines |-> {}, from |-> from]
    ELSE [kind |-> "graph",
          cards |-> [k \in KeySet(ns) \cap DOMAIN map |-> map[k]],
          lines |-> {i \in 1..Len(es) :
                        /\ Has(map, NodeKey(es[i].service, es[i].source))
                        /\ Has(map, NodeKey(es[i].service, es[i].target))},
          from |-> from]

(***************************************************************************)
(* edgePorts                                                               *)
(***************************************************************************)
CARD_W == 160
CARD_H == 60

HalfW == Div[FromInt[CARD_W], FromInt[2]]
HalfH == Div[FromInt[CARD_H], FromInt[2]]

\* The midpoints of the four sides of the card whose top left corner is p.
RightMid(p) == [x |-> Add[p.x, FromInt[CARD_W]], y |-> Add[p.y, HalfH]]
LeftMid(p) == [x |-> p.x, y |-> Add[p.y, HalfH]]
BottomMid(p) == [x |-> Add[p.x, HalfW], y |-> Add[p.y, FromInt[CARD_H]]]
TopMid(p) == [x |-> Add[p.x, HalfW], y |-> p.y]

\* const dx = tx - sx, dy = ty - sy between the card centres
CentreDx(sp, tp) == Sub[Add[tp.x, HalfW], Add[sp.x, HalfW]]
CentreDy(sp, tp) == Sub[Add[tp.y, HalfH], Add[sp.y, HalfH]]

\* A variant of edgePorts that compares dx with dy without Math.abs.
EdgePortsSigned(sp, tp) ==
    Const(CentreDx(sp, tp), LAMBDA dx :
    Const(CentreDy(sp, tp), LAMBDA dy :
    IF Less[dy, dx]
    THEN IF Less[Zero, dx]
         THEN [from |-> RightMid(sp), to |-> LeftMid(tp)]
         ELSE [from |-> LeftMid(sp), to |-> RightMid(tp)]
    ELSE IF Less[Zero, dy]
         THEN [from |-> BottomMid(sp), to |-> TopMid(tp)]
         ELSE [from |-> TopMid(sp), to |-> BottomMid(tp)]))

\* edgePorts(sp, tp): from is (x1, y1), to is (x2, y2).
EdgePorts(sp, tp) ==
    Const(CentreDx(sp, tp), LAMBDA dx :
    Const(CentreDy(sp, tp), LAMBDA dy :
    IF Less[MathAbs(dy), MathAbs(dx)]
    THEN IF Less[Zero, dx]
         THEN [from |-> RightMid(sp), to |-> LeftMid(tp)]
         ELSE [from |-> LeftMid(sp), to |-> RightMid(tp)]
    ELSE IF Less[Zero, dy]
         THEN [from |-> BottomMid(sp), to |-> TopMid(tp)]
         ELSE [from |-> TopMid(sp), to |-> BottomMid(tp)]))

\* The card positions edgePorts is applied to.
PortCoords == {FromInt[0], FromInt[40], Div[FromInt[141], FromInt[2]], FromInt[PortFar]}
PortPoints == [x : PortCoords, y : PortCoords]

InitPorts ==
    /\ mounted = FALSE
    /\ AppIdle
    /\ nodes = <<>>
    /\ edges = <<>>
    /\ positions = EmptyMap
    /\ deps = NoDeps
    /\ pc = "cards"
    /\ view = NoView
    /\ steps = 0
    /\ trig = NoTrig
    /\ last = "none"
    /\ \E sp \in PortPoints, tp \in PortPoints : snap = <<[sp |-> sp, tp |-> tp]>>

\* const { x1, y1, x2, y2 } = edgePorts(sp, tp)
DrawEdge ==
    /\ pc = "cards"
    /\ view' = [kind |-> "edge", cards |-> EmptyMap, lines |-> {},
                from |-> EdgePorts(snap[1].sp, snap[1].tp)]
    /\ pc' = "drawn"
    /\ UNCHANGED <<mounted, nodes, edges, positions, deps, steps, trig, last, snap>>
    /\ UNCHANGED app

NextPorts == DrawEdge

SpecPorts == InitPorts /\ [][NextPorts]_vars

(***************************************************************************)
(* The hook under React                                                    *)
(***************************************************************************)
Init ==
    /\ mounted = FALSE
    /\ AppIdle
    /\ nodes = <<>>
    /\ edges = <<>>
    /\ positions = EmptyMap
    /\ deps = NoDeps
    /\ pc = "idle"
    /\ view = NoView
    /\ steps = 0
    /\ trig = NoTrig
    /\ last = "none"
    /\ snap = NoSnap

\* The relations tab renders <SchemaGraph nodes edges /> for the first time:
\* useState({}) and the first render.
Mount(ns, es) ==
    /\ ~mounted
    /\ pc = "idle"
    /\ mounted' = TRUE
    /\ nodes' = ns
    /\ edges' = es
    /\ positions' = EmptyMap
    /\ deps' = NoDeps
    /\ view' = Render(ns, es, EmptyMap, NoTrig)
    /\ pc' = "effect"
    /\ UNCHANGED <<steps, trig, last, snap>>
    /\ UNCHANGED app

\* DatabaseView renders again and passes new combinedNodes / combinedEdges; a
\* pending setPositions is taken up by the same render.
ParentRender(ns, es) ==
    /\ mounted
    /\ pc \in {"idle", "rerender"}
    /\ nodes' = ns
    /\ edges' = es
    /\ view' = Render(ns, es, positions, trig)
    /\ pc' = "effect"
    /\ UNCHANGED <<mounted, positions, deps, steps, trig, last, snap>>
    /\ UNCHANGED app

\* A variant of the effect that is keyed on the content of the two lists.
RunEffectOnContent ==
    /\ mounted
    /\ pc = "effect"
    /\ deps' = <<Len(nodes), Len(edges)>>
    /\ IF deps = NoDeps \/ trig # <<nodes, edges>>
       THEN /\ \E r \in {Layout(nodes, edges)} :
                   positions' = r.positions /\ steps' = r.steps
            /\ trig' = <<nodes, edges>>
            /\ last' = IF deps = NoDeps THEN "mount" ELSE "changed"
            /\ pc' = "rerender"
       ELSE /\ last' = "skipped"
            /\ pc' = "idle"
            /\ UNCHANGED <<positions, steps, trig>>
    /\ UNCHANGED <<mounted, nodes, edges, view, snap>>
    /\ UNCHANGED app

\* A variant of the effect whose dependency list is [nodes.length] alone.
RunEffectNodesOnly ==
    /\ mounted
    /\ pc = "effect"
    /\ deps' = <<Len(nodes), Len(edges)>>
    /\ IF deps = NoDeps \/ deps[1] # Len(nodes)
       THEN /\ \E r \in {Layout(nodes, edges)} :
                   positions' = r.positions /\ steps' = r.steps
            /\ trig' = <<nodes, edges>>
            /\ last' = IF deps = NoDeps THEN "mount" ELSE "changed"
            /\ pc' = "rerender"
       ELSE /\ last' = "skipped"
            /\ pc' = "idle"
            /\ UNCHANGED <<positions, steps, trig>>
    /\ UNCHANGED <<mounted, nodes, edges, view, snap>>
    /\ UNCHANGED app

\* A variant of the effect that keeps the position of every key already placed
\* and lays out only the new keys.
RunEffectKeepPlaced ==
    /\ mounted
    /\ pc = "effect"
    /\ deps' = <<Len(nodes), Len(edges)>>
    /\ IF deps = NoDeps \/ deps # <<Len(nodes), Len(edges)>>
       THEN /\ \E r \in {Layout(nodes, edges)} :
                   /\ positions' = [k \in DOMAIN r.positions |->
                                       IF Has(positions, k) THEN positions[k]
                                                            ELSE r.positions[k]]
                   /\ steps' = r.steps
            /\ trig' = <<nodes, edges>>
            /\ last' = IF deps = NoDeps THEN "mount" ELSE "changed"
            /\ pc' = "rerender"
       ELSE /\ last' = "skipped"
            /\ pc' = "idle"
            /\ UNCHANGED <<positions, steps, trig>>
    /\ UNCHANGED <<mounted, nodes, edges, view, snap>>
    /\ UNCHANGED app

\* A variant of the effect that writes its result only into an empty map.
RunEffectFirstWins ==
    /\ mounted
    /\ pc = "effect"
    /\ deps' = <<Len(nodes), Len(edges)>>
    /\ IF deps = NoDeps \/ deps # <<Len(nodes), Len(edges)>>
       THEN /\ \E r \in {Layout(nodes, edges)} :
                   /\ positions' = IF positions = EmptyMap THEN r.positions ELSE positions
                   /\ steps' = r.steps
            /\ trig' = <<nodes, edges>>
            /\ last' = IF deps = NoDeps THEN "mount" ELSE "changed"
            /\ pc' = "rerender"
       ELSE /\ last' = "skipped"
            /\ pc' = "idle"
            /\ UNCHANGED <<positions, steps, trig>>
    /\ UNCHANGED <<mounted, nodes, edges, view, snap>>
    /\ UNCHANGED app

\* A variant of the effect that adds its result to the map it finds.
RunEffectMerge ==
    /\ mounted
    /\ pc = "effect"
    /\ deps' = <<Len(nodes), Len(edges)>>
    /\ IF deps = NoDeps \/ deps # <<Len(nodes), Len(edges)>>
       THEN /\ \E r \in {Layout(nodes, edges)} :
                   positions' = r.positions @@ positions /\ steps' = r.steps
            /\ trig' = <<nodes, edges>>
            /\ last' = IF deps = NoDeps THEN "mount" ELSE "changed"
            /\ pc' = "rerender"
       ELSE /\ last' = "skipped"
            /\ pc' = "idle"
            /\ UNCHANGED <<positions, steps, trig>>
    /\ UNCHANGED <<mounted, nodes, edges, view, snap>>
    /\ UNCHANGED app

\* A variant of the effect that drops from the edge list, in place, the edges
\* it skipped.
RunEffectPruning ==
    /\ mounted
    /\ pc = "effect"
    /\ deps' = <<Len(nodes), Len(edges)>>
    /\ IF deps = NoDeps \/ deps # <<Len(nodes), Len(edges)>>
       THEN /\ \E r \in {Layout(nodes, edges)} :
                   positions' = r.positions /\ steps' = r.steps
            /\ trig' = <<nodes, edges>>
            /\ last' = IF deps = NoDeps THEN "mount" ELSE "changed"
            /\ pc' = "rerender"
            /\ edges' = SelectSeq(edges, LAMBDA e : ~Dangling(nodes, e))
       ELSE /\ last' = "skipped"
            /\ pc' = "idle"
            /\ UNCHANGED <<positions, steps, trig, edges>>
    /\ UNCHANGED <<mounted, nodes, view, snap>>
    /\ UNCHANGED app

\* useEffect(..., [nodes.length, edges.length]) after a committed render: the
\* body runs on mount and when a dependency differs from the previous render.
RunEffect ==
    /\ mounted
    /\ pc = "effect"
    /\ deps' = <<Len(nodes), Len(edges)>>
    /\ IF deps = NoDeps \/ deps # <<Len(nodes), Len(edges)>>
       THEN /\ \E r \in {Layout(nodes, edges)} :
                   positions' = r.positions /\ steps' = r.steps
            /\ trig' = <<nodes, edges>>
            /\ last' = IF deps = NoDeps THEN "mount" ELSE "changed"
            /\ pc' = "rerender"
       ELSE /\ last' = "skipped"
            /\ pc' = "idle"
            /\ UNCHANGED <<positions, steps, trig>>
    /\ UNCHANGED <<mounted, nodes, edges, view, snap>>
    /\ UNCHANGED app

\* setPositions(...) makes SchemaGraph render again with the same props.
Rerender ==
    /\ mounted
    /\ pc = "rerender"
    /\ view' = Render(nodes, edges, positions, trig)
    /\ pc' = "effect"
    /\ UNCHANGED <<mounted, nodes, edges, positions, deps, steps, trig, last, snap>>
    /\ UNCHANGED app

\* The tab is left, or the "Building schema graph" placeholder replaces the graph.
Unmount ==
    /\ mounted
    /\ pc = "idle"
    /\ mounted' = FALSE
    /\ nodes' = <<>>
    /\ edges' = <<>>
    /\ positions' = EmptyMap
    /\ deps' = NoDeps
    /\ view' = NoView
    /\ steps' = 0
    /\ trig' = NoTrig
    /\ last' = "none"
    /\ UNCHANGED <<pc, snap>>
    /\ UNCHANGED app

Next ==
    \/ \E in \in Inputs : Mount(in[1], in[2])
    \/ \E in \in Inputs : ParentRender(in[1], in[2])
    \/ RunEffect
    \/ Rerender
    \/ Unmount

Spec == Init /\ [][Next]_vars

(***************************************************************************)
(* The hook under React, with the caller keeping a returned map            *)
(***************************************************************************)
\* return positions: the caller keeps the map of a settled run and the input
\* the run was made for.
Snapshot ==
    /\ mounted
    /\ pc = "idle"
    /\ trig # NoTrig
    /\ snap = NoSnap
    /\ snap' = <<[input |-> trig, output |-> positions]>>
    /\ UNCHANGED <<mounted, nodes, edges, positions, deps, pc, view, steps, trig, last>>
    /\ UNCHANGED app

NextDet ==
    \/ \E in \in DetInputs : Mount(in[1], in[2])
    \/ \E in \in DetInputs : ParentRender(in[1], in[2])
    \/ RunEffect
    \/ Rerender
    \/ Unmount
    \/ Snapshot

SpecDet == Init /\ [][NextDet]_vars

(***************************************************************************)
(* The effect body as a function of its input                              *)
(***************************************************************************)
InitLayout ==
    /\ mounted = FALSE
    /\ AppIdle
    /\ \E in \in Inputs : nodes = in[1] /\ edges = in[2]
    /\ positions = EmptyMap
    /\ deps = NoDeps
    /\ pc = "ready"
    /\ view = NoView
    /\ steps = 0
    /\ trig = NoTrig
    /\ last = "none"
    /\ snap = NoSnap

\* The effect body on nodes, edges.
RunLayout ==
    /\ pc = "ready"
    /\ \E r \in {Layout(nodes, edges)} :
           positions' = r.positions /\ steps' = r.steps
    /\ trig' = <<nodes, edges>>
    /\ pc' = "done"
    /\ UNCHANGED <<mounted, nodes, edges, deps, view, last, snap>>
    /\ UNCHANGED app

\* The effect body on nodes and an edge list that has one more dangling edge d,
\* after the first k edges of the list compared last.
RunWithDangling(d, k) ==
    /\ pc \in {"done", "extended"}
    /\ Dangling(nodes, d)
    /\ LET base == IF snap = NoSnap THEN edges ELSE snap[1].input[2]
       IN  /\ Len(edges) <= MaxEdges
           /\ Len(base) < Len(edges) + MaxExtra
           /\ k <= Len(base)
           /\ \E es \in {InsertAt(base, k, d)} :
                  snap' = <<[input |-> <<nodes, es>>,
                             output |-> Layout(nodes, es).positions]>>
    /\ pc' = "extended"
    /\ UNCHANGED <<mounted, nodes, edges, positions, deps, view, steps, trig, last>>
    /\ UNCHANGED app

NextLayout ==
    \/ RunLayout
    \/ \E d \in EdgeValues \cup DanglingValues, k \in 0..(MaxEdges + MaxExtra) :
           RunWithDangling(d, k)

SpecLayout == InitLayout /\ [][NextLayout]_vars

(***************************************************************************)
(* The effect body on the inputs and on two tables with very many          *)
(* relationships between them                                              *)
(***************************************************************************)
InitStress ==
    /\ mounted = FALSE
    /\ AppIdle
    /\ \E in \in Inputs \cup {<<StressNodes, StressEdges>>} :
           nodes = in[1] /\ edges = in[2]
    /\ positions = EmptyMap
    /\ deps = NoDeps
    /\ pc = "ready"
    /\ view = NoView
    /\ steps = 0
    /\ trig = NoTrig
    /\ last = "none"
    /\ snap = NoSnap

NextStress == RunLayout

SpecStress == InitStress /\ [][NextStress]_vars

(***************************************************************************)
(* The effect body step by step                                            *)
(***************************************************************************)
InitSteps ==
    /\ mounted = FALSE
    /\ AppIdle
    /\ \E in \in StepInputs : nodes = in[1] /\ edges = in[2]
    /\ positions = EmptyMap
    /\ deps = NoDeps
    /\ pc = "entry"
    /\ view = NoView
    /\ steps = 0
    /\ trig = NoTrig
    /\ last = "none"
    /\ snap = NoSnap

\* The seeding of a non-empty node list.
SeedStep ==
    /\ pc = "entry"
    /\ Len(nodes) > 0
    /\ \E seeded \in {Seed(nodes)} :
           snap' = <<[pos |-> seeded.pos, keys |-> seeded.keys,
                      seed |-> seeded.pos, prev |-> seeded.pos]>>
    /\ steps' = 0
    /\ pc' = "loop"
    /\ UNCHANGED <<mounted, nodes, edges, positions, deps, view, trig, last>>
    /\ UNCHANGED app

\* One pass of the iteration loop.
IterStep ==
    /\ pc = "loop"
    /\ steps < ITERATIONS
    /\ snap' = <<[snap[1] EXCEPT !.pos = Step(snap[1].pos, snap[1].keys, edges),
                                 !.prev = snap[1].pos]>>
    /\ steps' = steps + 1
    /\ UNCHANGED <<mounted, nodes, edges, positions, deps, pc, view, trig, last>>
    /\ UNCHANGED app

\* The normalisation and setPositions(result) after the last pass.
NormaliseStep ==
    /\ pc = "loop"
    /\ steps = ITERATIONS
    /\ positions' = Normalise(snap[1].pos, snap[1].keys)
    /\ trig' = <<nodes, edges>>
    /\ pc' = "done"
    /\ UNCHANGED <<mounted, nodes, edges, deps, view, steps, last, snap>>
    /\ UNCHANGED app

NextSteps ==
    \/ SeedStep
    \/ IterStep
    \/ NormaliseStep

SpecSteps == InitSteps /\ [][NextSteps]_vars

(***************************************************************************)
(* The effect body step by step on two tables with very many relationships *)
(***************************************************************************)
InitStressSteps ==
    /\ mounted = FALSE
    /\ AppIdle
    /\ nodes = StressNodes
    /\ edges = StressEdges
    /\ positions = EmptyMap
    /\ deps = NoDeps
    /\ pc = "entry"
    /\ view = NoView
    /\ steps = 0
    /\ trig = NoTrig
    /\ last = "none"
    /\ snap = NoSnap

SpecStressSteps == InitStressSteps /\ [][NextSteps]_vars

(***************************************************************************)
(* The attraction loop of one pass, on three tables at rest                *)
(***************************************************************************)
\* Where tables a and b are when the attraction loop starts, and where c is.
SpringCoords == {FromInt[0], FromInt[100], FromInt[352], FromInt[452]}
SpringPoints == [x : SpringCoords, y : SpringCoords, vx : {Zero}, vy : {Zero}]
SpringThird == [x |-> FromInt[250], y |-> FromInt[600], vx |-> Zero, vy |-> Zero]
SpringEdgeLists == SeqsUpTo(StepEdgeValues, SpringEdges)

InitSpring ==
    /\ mounted = FALSE
    /\ AppIdle
    /\ nodes = Tables(3)
    /\ edges \in SpringEdgeLists
    /\ Len(edges) > 0
    /\ positions = EmptyMap
    /\ deps = NoDeps
    /\ pc = "placed"
    /\ view = NoView
    /\ steps = 0
    /\ trig = NoTrig
    /\ last = "none"
    /\ \E pa \in SpringPoints, pb \in SpringPoints :
           /\ <<pa.x, pa.y>> # <<pb.x, pb.y>>
           /\ \E at \in {("s1:a" :> pa) @@ ("s1:b" :> pb) @@ ("s1:c" :> SpringThird)} :
                  snap = <<[pos |-> at, keys |-> <<"s1:a", "s1:b", "s1:c">>,
                            seed |-> at, prev |-> at]>>

\* edges.forEach(e => ...) of one pass.
AttractStep ==
    /\ pc = "placed"
    /\ snap' = <<[snap[1] EXCEPT
                     !.pos = AttractTo([pos |-> snap[1].pos, done |-> 0], edges, Len(edges)).pos,
                     !.prev = snap[1].pos]>>
    /\ pc' = "pulled"
    /\ UNCHANGED <<mounted, nodes, edges, positions, deps, view, steps, trig, last>>
    /\ UNCHANGED app

NextSpring == AttractStep

SpecSpring == InitSpring /\ [][NextSpring]_vars

(***************************************************************************)
(* The seeding alone                                                       *)
(***************************************************************************)
SeedNodeValues ==
    {LineageNode("s1", "a"), LineageNode("s1", "b"), LineageNode("s1", "c"),
     LineageNode("s2", "a"), LineageNode("s2", "b")}
SeedNodeLists == SeqsUpTo(SeedNodeValues, SeedNodes) \ {<<>>}

InitSeed ==
    /\ mounted = FALSE
    /\ AppIdle
    /\ nodes \in SeedNodeLists
    /\ edges = <<>>
    /\ positions = EmptyMap
    /\ deps = NoDeps
    /\ pc = "entry"
    /\ view = NoView
    /\ steps = 0
    /\ trig = NoTrig
    /\ last = "none"
    /\ snap = NoSnap

NextSeed == SeedStep

SpecSeed == InitSeed /\ [][NextSeed]_vars

(***************************************************************************)
(* ChatView: send                                                          *)
(***************************************************************************)
\* A text is a sequence of words; " " stands for white space only.
Words == {"plot", "pie", "pipeline", " "}
Texts == SeqsUpTo(Words, MaxWords)

\* !text.trim()
IsBlank(text) == \A i \in DOMAIN text : text[i] = " "

\* x is falsy: null, undefined or the empty string
Falsy(x) == x \in {Null, ""}

\* PLOT_KEYWORDS: the whole words that make a text a plot request
PLOT_KEYWORDS ==
    {"plot", "chart", "graph", "visualise", "visualize", "histogram", "distribution"}

\* PLOT_KEYWORDS.test(q)
IsPlotRequest(q) == \E i \in DOMAIN q : q[i] \in PLOT_KEYWORDS

\* Object.entries(CHART_TYPE_MAP), in insertion order
CHART_TYPE_MAP ==
    << <<"pie", "pie">>, <<"pie chart", "pie">>, <<"donut", "pie">>,
       <<"line", "line">>, <<"line chart", "line">>, <<"trend", "line">>,
       <<"bar", "bar">>, <<"bar chart", "bar">>, <<"histogram", "bar">> >>

\* word.includes(kw), for the words of Words
WordIncludes(word, kw) ==
    \/ word = kw
    \/ word = "pipeline" /\ kw = "line"

\* q.toLowerCase().includes(kw)
Includes(q, kw) == \E i \in DOMAIN q : WordIncludes(q[i], kw)

\* for (const [kw, t] of Object.entries(CHART_TYPE_MAP)) if (includes) return t; return 'bar'
DetectChartType(q) ==
    IF \E k \in DOMAIN CHART_TYPE_MAP : Includes(q, CHART_TYPE_MAP[k][1])
    THEN CHART_TYPE_MAP[CHOOSE k \in DOMAIN CHART_TYPE_MAP :
                            /\ Includes(q, CHART_TYPE_MAP[k][1])
                            /\ \A j \in 1..(k - 1) : ~Includes(q, CHART_TYPE_MAP[j][1])][2]
    ELSE "bar"

\* The answers the backend gives, and the SQL extractSqlFromText finds in each.
Answers == {"no query", "Try SELECT 2", "Use SELECT id FROM orders"}
\* extractSqlFromText on these answers: the text from 'SELECT ' on when it is
\* longer than 15 characters, else null
ExtractSqlFromText(text) ==
    IF text = "Use SELECT id FROM orders" THEN "SELECT id FROM orders" ELSE Null

\* ChatResponse
Responses == [answer : Answers, suggested_sql : {Null, "", "SELECT 1"}]

\* a || b
OrElse(a, b) == IF Falsy(a) THEN b ELSE a

\* ChatMessage; id stands for crypto.randomUUID(), never the same twice
ChatMessage(id, role, content, sql) ==
    [id |-> id, role |-> role, content |-> content, suggested_sql |-> sql]

\* ExtendedMessage; an autoRan that is undefined is written FALSE (the code
\* reads only whether it is truthy)
Extended(m, plotData, ct, ran) ==
    [id |-> m.id, role |-> m.role, content |-> m.content, suggested_sql |-> m.suggested_sql,
     plotData |-> plotData, chartType |-> ct, autoRan |-> ran]

\* prevMap.get(id)?.[field], undefined when prev has no message of that id
PrevField(prev, id, field, undefined) ==
    IF \E i \in DOMAIN prev : prev[i].id = id
    THEN prev[CHOOSE i \in DOMAIN prev :
                  prev[i].id = id /\ \A j \in (i + 1)..Len(prev) : prev[j].id # id][field]
    ELSE undefined

\* The [rawMessages] effect: setLocalMessages(prev => rawMessages.map(...))
SyncLocal(prev, raw) ==
    [i \in DOMAIN raw |->
        Extended(raw[i], PrevField(prev, raw[i].id, "plotData", Null),
                 PrevField(prev, raw[i].id, "chartType", Null),
                 PrevField(prev, raw[i].id, "autoRan", FALSE))]

\* setLocalMessages(prev => [...prev.slice(0, -1), { ...last, autoRan: true, chartType }])
MarkLast(prev, text) ==
    IF Len(prev) = 0 THEN prev
    ELSE [prev EXCEPT ![Len(prev)] =
             [@ EXCEPT !.autoRan = TRUE, !.chartType = DetectChartType(text)]]

\* A variant of send without the guard on blank text and on isLoading.
SendUnguarded(text) ==
    /\ Len(messages) + 2 <= MaxMessages
    /\ messages' = Append(messages, ChatMessage(Len(messages) + 1, "user", text, Null))
    /\ isLoading' = TRUE
    /\ reqs' = reqs \cup {[kind |-> "chat", id |-> Len(messages) + 1, text |-> text]}
    /\ localMessages' = SyncLocal(localMessages, messages')
    /\ UNCHANGED <<status, blockResult, error, chartType, showChart, autoRun, connections,
                   activeService, profileCache, creds, isPolling, selected, tables,
                   loadingLineage>>
    /\ UNCHANGED graph

\* send(text) up to its await: the guard, addMessage(userMsg), setLoading(true),
\* then the render and the [rawMessages] effect.
Send(text) ==
    /\ ~IsBlank(text)
    /\ ~isLoading
    /\ Len(messages) + 2 <= MaxMessages
    /\ messages' = Append(messages, ChatMessage(Len(messages) + 1, "user", text, Null))
    /\ isLoading' = TRUE
    /\ reqs' = reqs \cup {[kind |-> "chat", id |-> Len(messages) + 1, text |-> text]}
    /\ localMessages' = SyncLocal(localMessages, messages')
    /\ UNCHANGED <<status, blockResult, error, chartType, showChart, autoRun, connections,
                   activeService, profileCache, creds, isPolling, selected, tables,
                   loadingLineage>>
    /\ UNCHANGED graph

\* send(text) with blank text or while isLoading: return.
SendIgnored(text) ==
    /\ IsBlank(text) \/ isLoading
    /\ UNCHANGED app
    /\ UNCHANGED graph

\* The request resolves: addMessage(assistant), the autoRan mark when the text
\* asked for a plot and there is SQL, setLoading(false); one render takes the
\* queued updates, then the [rawMessages] effect runs.
ChatResolves(req, res) ==
    /\ req \in reqs
    /\ req.kind = "chat"
    /\ LET sql == OrElse(res.suggested_sql, ExtractSqlFromText(OrElse(res.answer, "")))
           wantsPlot == IsPlotRequest(req.text)
           marked == IF wantsPlot /\ ~Falsy(sql)
                     THEN MarkLast(localMessages, req.text)
                     ELSE localMessages
       IN  /\ messages' = Append(messages,
                  ChatMessage(Len(messages) + 1, "assistant", res.answer, OrElse(sql, Null)))
           /\ localMessages' = SyncLocal(marked, messages')
    /\ isLoading' = FALSE
    /\ reqs' = reqs \ {req}
    /\ UNCHANGED <<status, blockResult, error, chartType, showChart, autoRun, connections,
                   activeService, profileCache, creds, isPolling, selected, tables,
                   loadingLineage>>
    /\ UNCHANGED graph

\* The request fails: addMessage('Error: ...'), setLoading(false).
ChatRejects(req) ==
    /\ req \in reqs
    /\ req.kind = "chat"
    /\ messages' = Append(messages,
           ChatMessage(Len(messages) + 1, "assistant", "Error: network", Null))
    /\ localMessages' = SyncLocal(localMessages, messages')
    /\ isLoading' = FALSE
    /\ reqs' = reqs \ {req}
    /\ UNCHANGED <<status, blockResult, error, chartType, showChart, autoRun, connections,
                   activeService, profileCache, creds, isPolling, selected, tables,
                   loadingLineage>>
    /\ UNCHANGED graph

\* The schema graph is not on screen while the chat is.
GraphIdle ==
    /\ mounted = FALSE
    /\ nodes = <<>>
    /\ edges = <<>>
    /\ positions = EmptyMap
    /\ deps = NoDeps
    /\ pc = "idle"
    /\ view = NoView
    /\ steps = 0
    /\ trig = NoTrig
    /\ last = "none"
    /\ snap = NoSnap

InitChat == GraphIdle /\ AppIdle

NextChat ==
    \/ \E text \in Texts : Send(text)
    \/ \E text \in Texts : SendIgnored(text)
    \/ \E req \in reqs, res \in Responses : ChatResolves(req, res)
    \/ \E req \in reqs : ChatRejects(req)

SpecChat == InitChat /\ [][NextChat]_vars

\* Every request is answered or fails in the end (axios times out after 120 s).
FairChat ==
    /\ SpecChat
    /\ WF_vars(\E req \in reqs : (\E res \in Responses : ChatResolves(req, res)) \/ ChatRejects(req))

(***************************************************************************)
(* ChatView: SqlExecutionBlock                                             *)
(***************************************************************************)
\* What runPlot resolves with, and what it rejects with.
PlotData == {"rows with a value column", "rows without a value column", "no rows"}
\* result.value_col && result.rows.length > 0
Chartable(data) == data = "rows with a value column"
PlotErrors ==
    {[detail |-> "no such table", message |-> "Request failed with status code 400"],
     [detail |-> Null, message |-> "Network Error"],
     [detail |-> Null, message |-> ""]}
ServiceNames == {"s1", "s2"}
ChartTypes == {"bar", "pie", "line"}

\* The state the block leaves alone.
outsideBlock ==
    <<messages, isLoading, localMessages, autoRun, connections, profileCache, creds,
      isPolling, selected, tables, loadingLineage>>

\* A variant of runQuery without the guard on activeService.
RunQueryAnyway(ct) ==
    /\ status' = "running"
    /\ error' = Null
    /\ blockResult' = Null
    /\ reqs' = reqs \cup {[kind |-> "plot", n |-> Cardinality(reqs) + 1,
                           service |-> activeService, ct |-> ct]}

\* runQuery(ct) up to its await
RunQuery(ct) ==
    IF activeService = Null
    THEN UNCHANGED <<status, error, blockResult, reqs>>
    ELSE /\ status' = "running"
         /\ error' = Null
         /\ blockResult' = Null
         /\ reqs' = reqs \cup {[kind |-> "plot", n |-> Cardinality(reqs) + 1,
                                service |-> activeService, ct |-> ct]}

\* useEffect(() => { if (autoRun && !initialPlot) runQuery('bar') }, []); ChatView
\* passes no initialPlot.
BlockEffect ==
    /\ pc = "effect"
    /\ pc' = "idle"
    /\ IF autoRun THEN RunQuery("bar") ELSE UNCHANGED <<status, error, blockResult, reqs>>
    /\ UNCHANGED <<chartType, showChart, activeService>>
    /\ UNCHANGED outsideBlock
    /\ UNCHANGED <<mounted, nodes, edges, positions, deps, view, steps, trig, last, snap>>

\* The Run button, drawn when status === 'idle' && activeService.
ClickRun ==
    /\ pc = "idle"
    /\ status = "idle"
    /\ activeService # Null
    /\ RunQuery(chartType)
    /\ UNCHANGED <<chartType, showChart, activeService>>
    /\ UNCHANGED outsideBlock
    /\ UNCHANGED graph

\* The Retry button, drawn when status === 'error'.
ClickRetry ==
    /\ pc = "idle"
    /\ status = "error"
    /\ RunQuery(chartType)
    /\ UNCHANGED <<chartType, showChart, activeService>>
    /\ UNCHANGED outsideBlock
    /\ UNCHANGED graph

\* The Re-run button, drawn when status === 'success'.
ClickRerun ==
    /\ pc = "idle"
    /\ status = "success"
    /\ status' = "idle"
    /\ blockResult' = Null
    /\ showChart' = FALSE
    /\ UNCHANGED <<error, chartType, activeService, reqs>>
    /\ UNCHANGED outsideBlock
    /\ UNCHANGED graph

\* The chart buttons, drawn on success when the result has a value column and rows.
ClickChart(t) ==
    /\ pc = "idle"
    /\ status = "success"
    /\ blockResult # Null
    /\ Chartable(blockResult)
    /\ chartType' = t
    /\ showChart' = TRUE
    /\ UNCHANGED <<status, blockResult, error, activeService, reqs>>
    /\ UNCHANGED outsideBlock
    /\ UNCHANGED graph

\* runPlot resolves: setResult(data); setStatus('success')
PlotResolves(req, data) ==
    /\ req \in reqs
    /\ req.kind = "plot"
    /\ blockResult' = data
    /\ status' = "success"
    /\ reqs' = reqs \ {req}
    /\ UNCHANGED <<error, chartType, showChart, activeService>>
    /\ UNCHANGED outsideBlock
    /\ UNCHANGED graph

\* runPlot rejects: setError(detail || message || 'Unknown error'); setStatus('error')
PlotRejects(req, e) ==
    /\ req \in reqs
    /\ req.kind = "plot"
    /\ error' = OrElse(e.detail, OrElse(e.message, "Unknown error"))
    /\ status' = "error"
    /\ reqs' = reqs \ {req}
    /\ UNCHANGED <<blockResult, chartType, showChart, activeService>>
    /\ UNCHANGED outsideBlock
    /\ UNCHANGED graph

\* Another view selects a service, or the active one is removed; the block is
\* rendered again with the new prop.
SetActiveService(s) ==
    /\ pc = "idle"
    /\ activeService' = s
    /\ UNCHANGED <<status, blockResult, error, chartType, showChart, reqs>>
    /\ UNCHANGED outsideBlock
    /\ UNCHANGED graph

\* The block as ChatView mounts it: useState at its initial values, the mount
\* effect pending.
InitBlock ==
    /\ mounted = FALSE
    /\ nodes = <<>>
    /\ edges = <<>>
    /\ positions = EmptyMap
    /\ deps = NoDeps
    /\ pc = "effect"
    /\ view = NoView
    /\ steps = 0
    /\ trig = NoTrig
    /\ last = "none"
    /\ snap = NoSnap
    /\ messages = <<>>
    /\ isLoading = FALSE
    /\ localMessages = <<>>
    /\ status = "idle"
    /\ blockResult = Null
    /\ error = Null
    /\ chartType \in {"bar", "pie"}
    /\ showChart = FALSE
    /\ autoRun \in BOOLEAN
    /\ connections = <<>>
    /\ activeService \in ServiceNames \cup {Null}
    /\ profileCache = <<>>
    /\ creds = <<>>
    /\ isPolling = FALSE
    /\ selected = ""
    /\ tables = <<>>
    /\ loadingLineage = Null
    /\ reqs = {}

NextBlock ==
    \/ BlockEffect
    \/ ClickRun
    \/ ClickRetry
    \/ ClickRerun
    \/ \E t \in ChartTypes : ClickChart(t)
    \/ \E req \in reqs, data \in PlotData : PlotResolves(req, data)
    \/ \E req \in reqs, e \in PlotErrors : PlotRejects(req, e)
    \/ \E s \in ServiceNames \cup {Null} : SetActiveService(s)

SpecBlock == InitBlock /\ [][NextBlock]_vars

(***************************************************************************)
(* DatabaseProvider, DashboardView and TableDetailView: connections,       *)
(* credentials and the shared profile cache                                *)
(***************************************************************************)
\* StoredConnection: the fields that tell two connections apart.
StoredConnection(name, type) == [service_name |-> name, db_type |-> type]
ConnectionValues == {StoredConnection(n, t) : n \in ServiceNames, t \in {"sqlite", "postgresql"}}

\* TableQualityProfile: the fields the cache is read by.
Profile(table, score) == [table_name |-> table, aggregate_score |-> score]
TableNames == {"t1", "t2"}
\* What profileTable(svc) resolves with: res.profiles
ProfileLists == {<<Profile("t1", 1), Profile("t2", 1)>>, <<Profile("t1", 2)>>}
\* What profileTable(svc, table) resolves with
TableProfiles(table) == {Profile(table, 3)}

\* connections.map(c => c.service_name)
NamesOf(conns) == {conns[i].service_name : i \in DOMAIN conns}
\* const serviceKey = connections.map(c => c.service_name).join(',')
ServiceKey(conns) == [i \in DOMAIN conns |-> conns[i].service_name]

\* A variant of the addConnection updater that always appends.
AddToAlways(prev, c) == Append(prev, c)

\* The addConnection updater: prev.find(same name) ? prev.map(merge) : [...prev, c]
AddTo(prev, c) ==
    IF \E i \in DOMAIN prev : prev[i].service_name = c.service_name
    THEN [i \in DOMAIN prev |-> IF prev[i].service_name = c.service_name THEN c ELSE prev[i]]
    ELSE Append(prev, c)

\* The removeConnection updater: prev.filter(c => c.service_name !== name)
RemoveFrom(prev, name) == SelectSeq(prev, LAMBDA c : c.service_name # name)

\* { ...prev, [key]: value }
Put(map, key, value) == (key :> value) @@ map
\* const n = { ...prev }; delete n[key]
Delete(map, key) == [k \in DOMAIN map \ {key} |-> map[k]]
\* map[key] || []
GetOrEmpty(map, key) == IF key \in DOMAIN map THEN map[key] ELSE <<>>

\* The updateProfileCache updater: prev => ({ ...prev, [svc]: profiles })
UpdateProfileCache(prev, svc, profiles) == Put(prev, svc, profiles)

\* An id no call in rs has.
FreshId(rs) == CHOOSE i \in 1..MaxInFlight :
                   /\ \A r \in rs : r.id # i
                   /\ \A j \in 1..(i - 1) : \E r \in rs : r.id = j

\* loadProfiles(svc) up to its first await
LoadCall(rs, svc) == [kind |-> "load", id |-> FreshId(rs), svc |-> svc, stage |-> "profile"]

RECURSIVE StartLoads(_, _)
\* names.forEach(svc => loadProfiles(svc))
StartLoads(names, rs) ==
    IF names = <<>> THEN rs
    ELSE StartLoads(Tail(names), rs \cup {LoadCall(rs, Head(names))})

\* The [serviceKey] effect of DashboardView after a render with conns and cache:
\* connections.forEach(c => { if (!profileCache[c.service_name]) loadProfiles(...) }),
\* run when the service key has changed.
AutoProfile(before, conns, cache) ==
    IF ServiceKey(conns) = ServiceKey(before) THEN <<>>
    ELSE SelectSeq(ServiceKey(conns), LAMBDA n : n \notin DOMAIN cache)

\* The state these handlers leave alone.
outsideData ==
    <<messages, isLoading, localMessages, status, blockResult, error, chartType,
      showChart, autoRun, selected, tables, loadingLineage>>

\* A variant of handleConnect whose addConnection always appends.
ConnectAppending(c) ==
    /\ Len(connections) < MaxConnections
    /\ connections' = AddToAlways(connections, c)
    /\ creds' = Put(creds, c.service_name, c)
    /\ Cardinality(reqs) + Len(AutoProfile(connections, connections', profileCache)) <= MaxInFlight
    /\ reqs' = StartLoads(AutoProfile(connections, connections', profileCache), reqs)
    /\ UNCHANGED <<activeService, profileCache, isPolling>>
    /\ UNCHANGED outsideData
    /\ UNCHANGED graph

\* handleConnect after ingestConnection has resolved: addConnection(c), then
\* the render and the auto-profile effect.
Connect(c) ==
    /\ Len(AddTo(connections, c)) <= MaxConnections
    /\ connections' = AddTo(connections, c)
    /\ creds' = Put(creds, c.service_name, c)
    /\ Cardinality(reqs) + Len(AutoProfile(connections, connections', profileCache)) <= MaxInFlight
    /\ reqs' = StartLoads(AutoProfile(connections, connections', profileCache), reqs)
    /\ UNCHANGED <<activeService, profileCache, isPolling>>
    /\ UNCHANGED outsideData
    /\ UNCHANGED graph

\* A click on a connection card: setActiveService(c.service_name)
SelectService(name) ==
    /\ name \in NamesOf(connections)
    /\ activeService' = name
    /\ UNCHANGED <<connections, creds, profileCache, isPolling, reqs>>
    /\ UNCHANGED outsideData
    /\ UNCHANGED graph

\* The refresh button of a connection: loadProfiles(c.service_name)
ClickRefresh(svc) ==
    /\ svc \in NamesOf(connections)
    /\ Cardinality(reqs) < MaxInFlight
    /\ reqs' = reqs \cup {LoadCall(reqs, svc)}
    /\ UNCHANGED <<connections, creds, profileCache, activeService, isPolling>>
    /\ UNCHANGED outsideData
    /\ UNCHANGED graph

\* loadProfiles: profileTable(svc) resolves; updateProfileCache(svc, profiles),
\* then the await of getAlerts.
ProfilesResolve(req, profiles) ==
    /\ req \in reqs
    /\ req.kind = "load"
    /\ req.stage = "profile"
    /\ profileCache' = UpdateProfileCache(profileCache, req.svc, profiles)
    /\ reqs' = (reqs \ {req}) \cup {[req EXCEPT !.stage = "alerts"]}
    /\ UNCHANGED <<connections, creds, activeService, isPolling>>
    /\ UNCHANGED outsideData
    /\ UNCHANGED graph

\* loadProfiles: profileTable(svc) rejects (catch {}), or getAlerts settles.
LoadEnds(req) ==
    /\ req \in reqs
    /\ req.kind = "load"
    /\ reqs' = reqs \ {req}
    /\ UNCHANGED <<connections, creds, profileCache, activeService, isPolling>>
    /\ UNCHANGED outsideData
    /\ UNCHANGED graph

\* handleDelete(name) up to its await; removeConnection is the one of the
\* render the click was made in, and compares with that render's activeService.
DeleteStarts(name) ==
    /\ name \in NamesOf(connections)
    /\ Cardinality(reqs) < MaxInFlight
    /\ reqs' = reqs \cup {[kind |-> "delete", id |-> FreshId(reqs), name |-> name,
                           activeService |-> activeService]}
    /\ UNCHANGED <<connections, creds, profileCache, activeService, isPolling>>
    /\ UNCHANGED outsideData
    /\ UNCHANGED graph

\* deleteConnection(name) resolves: removeConnection(name), then the render and
\* the auto-profile effect.
DeleteResolves(req) ==
    /\ req \in reqs
    /\ req.kind = "delete"
    /\ connections' = RemoveFrom(connections, req.name)
    /\ activeService' = (IF req.activeService = req.name THEN Null ELSE activeService)
    /\ creds' = Delete(creds, req.name)
    /\ profileCache' = Delete(profileCache, req.name)
    /\ Cardinality(reqs \ {req}) + Len(AutoProfile(connections, connections', profileCache'))
           <= MaxInFlight
    /\ reqs' = StartLoads(AutoProfile(connections, connections', profileCache'), reqs \ {req})
    /\ UNCHANGED isPolling
    /\ UNCHANGED outsideData
    /\ UNCHANGED graph

\* deleteConnection(name) rejects: removeConnection is not called.
DeleteRejects(req) ==
    /\ req \in reqs
    /\ req.kind = "delete"
    /\ reqs' = reqs \ {req}
    /\ UNCHANGED <<connections, creds, profileCache, activeService, isPolling>>
    /\ UNCHANGED outsideData
    /\ UNCHANGED graph

\* TableDetailView.runProfile up to its await; profileCache is the one of the
\* render the call was made in.
RunProfileStarts(svc, table) ==
    /\ svc \in NamesOf(connections)
    /\ Cardinality(reqs) < MaxInFlight
    /\ reqs' = reqs \cup {[kind |-> "runProfile", id |-> FreshId(reqs), svc |-> svc,
                           table |-> table, existing |-> GetOrEmpty(profileCache, svc)]}
    /\ UNCHANGED <<connections, creds, profileCache, activeService, isPolling>>
    /\ UNCHANGED outsideData
    /\ UNCHANGED graph

\* profileTable(svc, table) resolves: merged = existing.filter(other tables);
\* updateProfileCache(svc, [...merged, p])
RunProfileResolves(req, p) ==
    /\ req \in reqs
    /\ req.kind = "runProfile"
    /\ p \in TableProfiles(req.table)
    /\ profileCache' =
           UpdateProfileCache(profileCache, req.svc,
               Append(SelectSeq(req.existing, LAMBDA x : x.table_name # req.table), p))
    /\ reqs' = reqs \ {req}
    /\ UNCHANGED <<connections, creds, activeService, isPolling>>
    /\ UNCHANGED outsideData
    /\ UNCHANGED graph

\* profileTable(svc, table) rejects: finally { setLoading('') }
RunProfileRejects(req) ==
    /\ req \in reqs
    /\ req.kind = "runProfile"
    /\ reqs' = reqs \ {req}
    /\ UNCHANGED <<connections, creds, profileCache, activeService, isPolling>>
    /\ UNCHANGED outsideData
    /\ UNCHANGED graph

\* The dashboard with no connection yet.
InitConnections == GraphIdle /\ AppIdle

NextConnections ==
    \/ \E c \in ConnectionValues : Connect(c)
    \/ \E name \in ServiceNames : SelectService(name)
    \/ \E svc \in ServiceNames : ClickRefresh(svc)
    \/ \E req \in reqs, profiles \in ProfileLists : ProfilesResolve(req, profiles)
    \/ \E req \in reqs : LoadEnds(req)
    \/ \E name \in ServiceNames : DeleteStarts(name)
    \/ \E req \in reqs : DeleteResolves(req)
    \/ \E req \in reqs : DeleteRejects(req)

SpecConnections == InitConnections /\ [][NextConnections]_vars

\* One connection, its profiles not loaded yet; a table detail view is open.
InitCache ==
    /\ GraphIdle
    /\ messages = <<>>
    /\ isLoading = FALSE
    /\ localMessages = <<>>
    /\ status = "idle"
    /\ blockResult = Null
    /\ error = Null
    /\ chartType = "bar"
    /\ showChart = FALSE
    /\ autoRun = FALSE
    /\ connections = <<StoredConnection("s1", "sqlite")>>
    /\ activeService = "s1"
    /\ profileCache = <<>>
    /\ creds = Put(<<>>, "s1", StoredConnection("s1", "sqlite"))
    /\ isPolling = FALSE
    /\ selected = ""
    /\ tables = <<>>
    /\ loadingLineage = Null
    /\ reqs = {}

NextCache ==
    \/ \E svc \in ServiceNames : ClickRefresh(svc)
    \/ \E req \in reqs, profiles \in ProfileLists : ProfilesResolve(req, profiles)
    \/ \E req \in reqs : LoadEnds(req)
    \/ \E svc \in ServiceNames, table \in TableNames : RunProfileStarts(svc, table)
    \/ \E req \in reqs, p \in UNION {TableProfiles(t) : t \in TableNames} :
           RunProfileResolves(req, p)
    \/ \E req \in reqs : RunProfileRejects(req)

SpecCache == InitCache /\ [][NextCache]_vars

(***************************************************************************)
(* DashboardView: background polling                                       *)
(***************************************************************************)
\* The tick after the for loop has finished with connection req.i: the next
\* connection's checkChanges, or the end of the callback.
TickAdvance(rs, req) ==
    IF req.i < Len(req.conns)
    THEN (rs \ {req}) \cup {[req EXCEPT !.i = req.i + 1, !.stage = "check"]}
    ELSE rs \ {req}

\* The interval fires: the callback starts on the connections of the render
\* that installed it, up to the first await of checkChanges.
TickFires ==
    /\ Len(connections) > 0
    /\ Cardinality(reqs) < MaxInFlight
    /\ reqs' = reqs \cup {[kind |-> "tick", id |-> FreshId(reqs),
                           conns |-> ServiceKey(connections), i |-> 1, stage |-> "check"]}
    /\ UNCHANGED <<connections, creds, profileCache, activeService, isPolling>>
    /\ UNCHANGED outsideData
    /\ UNCHANGED graph

\* checkChanges settles: with changes, setIsPolling(true) and the silent
\* loadProfiles up to its await; without, or on an error, the next connection.
CheckSettles(req, outcome) ==
    /\ req \in reqs
    /\ req.kind = "tick"
    /\ req.stage = "check"
    /\ IF outcome = "has_changes"
       THEN /\ isPolling' = TRUE
            /\ reqs' = (reqs \ {req}) \cup {[req EXCEPT !.stage = "profile"]}
       ELSE /\ isPolling' = isPolling
            /\ reqs' = TickAdvance(reqs, req)
    /\ UNCHANGED <<connections, creds, profileCache, activeService>>
    /\ UNCHANGED outsideData
    /\ UNCHANGED graph

\* The silent loadProfiles: profileTable resolves; updateProfileCache, then the
\* await of getAlerts.
PollProfilesResolve(req, profiles) ==
    /\ req \in reqs
    /\ req.kind = "tick"
    /\ req.stage = "profile"
    /\ profileCache' = UpdateProfileCache(profileCache, req.conns[req.i], profiles)
    /\ reqs' = (reqs \ {req}) \cup {[req EXCEPT !.stage = "alerts"]}
    /\ UNCHANGED <<connections, creds, activeService, isPolling>>
    /\ UNCHANGED outsideData
    /\ UNCHANGED graph

\* A variant of the end of the reload that clears the flag only after getAlerts,
\* not when profileTable has failed.
PollLoadEndsOnSuccessOnly(req) ==
    /\ req \in reqs
    /\ req.kind = "tick"
    /\ req.stage \in {"profile", "alerts"}
    /\ isPolling' = (IF req.stage = "alerts" THEN FALSE ELSE isPolling)
    /\ reqs' = TickAdvance(reqs, req)
    /\ UNCHANGED <<connections, creds, profileCache, activeService>>
    /\ UNCHANGED outsideData
    /\ UNCHANGED graph

\* The silent loadProfiles ends: profileTable rejects (catch {}) or getAlerts
\* settles; finally { setIsPolling(false) }, then the next connection.
PollLoadEnds(req) ==
    /\ req \in reqs
    /\ req.kind = "tick"
    /\ req.stage \in {"profile", "alerts"}
    /\ isPolling' = FALSE
    /\ reqs' = TickAdvance(reqs, req)
    /\ UNCHANGED <<connections, creds, profileCache, activeService>>
    /\ UNCHANGED outsideData
    /\ UNCHANGED graph

\* The dashboard with its connections made, nothing in flight.
InitPoll ==
    /\ GraphIdle
    /\ messages = <<>>
    /\ isLoading = FALSE
    /\ localMessages = <<>>
    /\ status = "idle"
    /\ blockResult = Null
    /\ error = Null
    /\ chartType = "bar"
    /\ showChart = FALSE
    /\ autoRun = FALSE
    /\ connections \in {<<StoredConnection("s1", "sqlite")>>,
                        <<StoredConnection("s1", "sqlite"), StoredConnection("s2", "sqlite")>>}
    /\ activeService = Null
    /\ profileCache = <<>>
    /\ creds = [n \in NamesOf(connections) |-> StoredConnection(n, "sqlite")]
    /\ isPolling = FALSE
    /\ selected = ""
    /\ tables = <<>>
    /\ loadingLineage = Null
    /\ reqs = {}

\* What makes the call req go on.
Settles(req) ==
    \/ \E outcome \in {"has_changes", "no_changes", "error"} : CheckSettles(req, outcome)
    \/ \E profiles \in ProfileLists : PollProfilesResolve(req, profiles)
    \/ PollLoadEnds(req)
    \/ \E profiles \in ProfileLists : ProfilesResolve(req, profiles)
    \/ LoadEnds(req)

NextPoll ==
    \/ TickFires
    \/ \E svc \in ServiceNames : ClickRefresh(svc)
    \/ \E req \in reqs, outcome \in {"has_changes", "no_changes", "error"} :
           CheckSettles(req, outcome)
    \/ \E req \in reqs, profiles \in ProfileLists : PollProfilesResolve(req, profiles)
    \/ \E req \in reqs : PollLoadEnds(req)
    \/ \E req \in reqs, profiles \in ProfileLists : ProfilesResolve(req, profiles)
    \/ \E req \in reqs : LoadEnds(req)

SpecPoll == InitPoll /\ [][NextPoll]_vars

\* Every request settles in the end (axios times out after 120 s).
FairPoll ==
    /\ SpecPoll
    /\ \A i \in 1..MaxInFlight : WF_vars(\E req \in reqs : req.id = i /\ Settles(req))

(***************************************************************************)
(* DatabaseView: the lineage loaders                                       *)
(***************************************************************************)
\* What getLineage resolves with: the ids of data.nodes
LineageIds == {<<"a">>, <<"a", "b">>}

\* nodes.map(n => ({ name: n.id, service: svc, row_count: n.row_count }))
TableRows(ids, svc) == [i \in DOMAIN ids |-> [name |-> ids[i], service |-> svc]]

\* The state these handlers leave alone.
outsideLineage ==
    <<messages, isLoading, localMessages, status, blockResult, error, chartType,
      showChart, autoRun, connections, profileCache, creds, isPolling>>

\* A click on another service: setSelected(name); setActiveService(name); then
\* the [selected] effect: loadSelected(selected) up to its await.
SelectDb(name) ==
    /\ name \in NamesOf(connections)
    /\ name # selected
    /\ Cardinality(reqs) < MaxInFlight
    /\ selected' = name
    /\ activeService' = name
    /\ loadingLineage' = name
    /\ reqs' = reqs \cup {[kind |-> "lineage", id |-> FreshId(reqs), svc |-> name]}
    /\ UNCHANGED tables
    /\ UNCHANGED outsideLineage
    /\ UNCHANGED graph

\* loadSelected: getLineage(svc) resolves; setAllLineage, setTables,
\* setLoadingLineage(null)
LineageResolves(req, ids) ==
    /\ req \in reqs
    /\ req.kind = "lineage"
    /\ tables' = TableRows(ids, req.svc)
    /\ loadingLineage' = Null
    /\ reqs' = reqs \ {req}
    /\ UNCHANGED <<selected, activeService>>
    /\ UNCHANGED outsideLineage
    /\ UNCHANGED graph

\* loadSelected: getLineage(svc) rejects; catch {}, setLoadingLineage(null)
LineageRejects(req) ==
    /\ req \in reqs
    /\ req.kind = "lineage"
    /\ loadingLineage' = Null
    /\ reqs' = reqs \ {req}
    /\ UNCHANGED <<selected, activeService, tables>>
    /\ UNCHANGED outsideLineage
    /\ UNCHANGED graph

\* The relations tab is opened: the [tab] effect calls loadAll, which runs up to
\* its first await: setLoadingLineage(connections[0].service_name)
OpenRelations ==
    /\ Len(connections) > 0
    /\ Cardinality(reqs) < MaxInFlight
    /\ loadingLineage' = connections[1].service_name
    /\ reqs' = reqs \cup {[kind |-> "loadAll", id |-> FreshId(reqs),
                           conns |-> ServiceKey(connections), i |-> 1]}
    /\ UNCHANGED <<selected, activeService, tables>>
    /\ UNCHANGED outsideLineage
    /\ UNCHANGED graph

\* loadAll: getLineage(c) settles (setAllLineage on success); then the next
\* connection's setLoadingLineage, or setLoadingLineage(null) after the last.
LoadAllSettles(req) ==
    /\ req \in reqs
    /\ req.kind = "loadAll"
    /\ IF req.i < Len(req.conns)
       THEN /\ loadingLineage' = req.conns[req.i + 1]
            /\ reqs' = (reqs \ {req}) \cup {[req EXCEPT !.i = req.i + 1]}
       ELSE /\ loadingLineage' = Null
            /\ reqs' = reqs \ {req}
    /\ UNCHANGED <<selected, activeService, tables>>
    /\ UNCHANGED outsideLineage
    /\ UNCHANGED graph

\* DatabaseView mounted on two connections: selected is the first one, and the
\* [selected] effect has called loadSelected.
InitLineage ==
    /\ GraphIdle
    /\ messages = <<>>
    /\ isLoading = FALSE
    /\ localMessages = <<>>
    /\ status = "idle"
    /\ blockResult = Null
    /\ error = Null
    /\ chartType = "bar"
    /\ showChart = FALSE
    /\ autoRun = FALSE
    /\ connections = <<StoredConnection("s1", "sqlite"), StoredConnection("s2", "sqlite")>>
    /\ activeService = Null
    /\ profileCache = <<>>
    /\ creds = <<>>
    /\ isPolling = FALSE
    /\ selected = "s1"
    /\ tables = <<>>
    /\ loadingLineage = "s1"
    /\ reqs = {[kind |-> "lineage", id |-> 1, svc |-> "s1"]}

NextLineage ==
    \/ \E name \in ServiceNames : SelectDb(name)
    \/ \E req \in reqs, ids \in LineageIds : LineageResolves(req, ids)
    \/ \E req \in reqs : LineageRejects(req)
    \/ OpenRelations
    \/ \E req \in reqs : LoadAllSettles(req)

SpecLineage == InitLineage /\ [][NextLineage]_vars

(***************************************************************************)
(* Properties                                                              *)
(***************************************************************************)

\* C1: for every input, the position map a completed run produces has exactly
\* the key set { service:id : node in nodes }, no extra and no missing key.
C1_OutputKeysAreNodeKeys ==
    /\ pc \in {"done", "extended"} => DOMAIN positions = KeySet(nodes)
    /\ pc = "extended" => DOMAIN snap[1].output = KeySet(nodes)

C1_Witness ==
    /\ pc = "done"
    /\ Cardinality(KeySet(nodes)) = 2
    /\ Len(edges) = 2

\* C2 as stated: once the effect has settled, the key set of the returned map
\* equals the key set of the current node list, and the map is empty while the
\* current node list is empty.
C2_SettledKeysAreCurrentKeys ==
    (mounted /\ pc = "idle") =>
        /\ DOMAIN positions = KeySet(nodes)
        /\ Len(nodes) = 0 => positions = EmptyMap

\* C2 amended: once the effect has settled, the key set of the returned map
\* equals the key set of the node list of the last render whose node or edge
\* count differed from the render before it (or of the mount); that list is as
\* long as the current one, and the map is empty while the current list is empty.
C2_SettledKeysAreTriggerKeys ==
    (mounted /\ pc = "idle") =>
        /\ trig # NoTrig
        /\ DOMAIN positions = KeySet(trig[1])
        /\ Len(trig[1]) = Len(nodes)
        /\ Len(nodes) = 0 => positions = EmptyMap

C2_Witness ==
    /\ mounted
    /\ pc = "idle"
    /\ KeySet(nodes) # KeySet(trig[1])
    /\ DOMAIN positions = KeySet(trig[1])

\* C3: when the node list is empty the run yields the empty map and makes no
\* simulation step, whatever the edge list contains.
C3_EmptyNodesEmptyMap ==
    /\ (pc \in {"done", "extended"} /\ Len(nodes) = 0) =>
           positions = EmptyMap /\ steps = 0
    /\ (pc = "extended" /\ Len(nodes) = 0) => snap[1].output = EmptyMap

C3_Witness ==
    /\ pc = "done"
    /\ Len(nodes) = 0
    /\ Len(edges) > 0
    /\ positions = EmptyMap

\* C4: a run of the layout on the node list and edge list of an earlier run
\* (same elements, same order) produces the map the earlier run produced.
C4_SameInputSameMap ==
    (snap # NoSnap /\ trig # NoTrig /\ trig = snap[1].input) =>
        positions = snap[1].output

C4_Witness ==
    /\ snap # NoSnap
    /\ trig = snap[1].input
    /\ pc = "rerender"
    /\ last = "changed"
    /\ Cardinality(DOMAIN positions) = 2
    /\ Len(edges) > 0

\* C5: edges added to the edge list that have an endpoint key absent from the
\* node set change no computed position: the layout with them is the layout
\* without them, and the layout of the edges that have both endpoints.
C5_DanglingEdgesIgnored ==
    pc = "extended" =>
        /\ snap[1].output = positions
        /\ snap[1].output = Layout(nodes, Live(nodes, snap[1].input[2])).positions

C5_Witness ==
    /\ pc = "extended"
    /\ Cardinality(KeySet(nodes)) = 2
    /\ Len(Live(nodes, edges)) > 0
    /\ Len(snap[1].input[2]) = Len(edges) + 1
    /\ snap[1].input[2][1] = LineageEdge("s1", "a", "z")

\* C6: on the first mount, and whenever nodes.length or edges.length differs
\* from its value at the previous render, the effect runs the layout on the
\* current input and its result replaces the position map.
C6_CountChangeRunsLayout ==
    [][(mounted /\ pc = "effect" /\ (deps = NoDeps \/ deps # <<Len(nodes), Len(edges)>>))
          => /\ positions' = Layout(nodes, edges).positions
             /\ trig' = <<nodes, edges>>
             /\ pc' = "rerender"]_vars

C6_Witness ==
    /\ pc = "rerender"
    /\ last = "changed"
    /\ Len(nodes) = 2
    /\ positions = Layout(nodes, edges).positions

\* C7: after any sequence of triggered runs the position map is the layout
\* computed from a fresh seed for the most recently triggered input: nothing
\* of an earlier run is left in it.
C7_MapIsLayoutOfLastTrigger ==
    (mounted /\ trig # NoTrig) => positions = Layout(trig[1], trig[2]).positions

C7_Witness ==
    /\ mounted
    /\ pc = "idle"
    /\ last = "skipped"
    /\ steps = ITERATIONS
    /\ Cardinality(DOMAIN positions) = 1
    /\ view.kind = "graph"
    /\ view.from = trig

\* C8: SchemaGraph never draws node cards from a map computed for an earlier
\* input or covering only part of the current nodes: what it draws is the
\* layout of the node list and edge list it was rendered with.
C8_NeverDrawsStaleOrPartial ==
    view.kind = "graph" => view.cards = Layout(nodes, edges).positions

\* C9: a run of the effect leaves the node list and the edge list as they
\* were: same length, same order, same field values.
C9_InputsUnchanged ==
    [][(mounted /\ pc = "effect")
          => (nodes' = nodes /\ edges' = edges)]_vars

C9_Witness ==
    /\ pc = "rerender"
    /\ last = "mount"
    /\ Len(nodes) = 1
    /\ Len(edges) = 2
    /\ \E i \in 1..Len(edges) : Dangling(nodes, edges[i])

\* C10: for every non-empty input the run makes exactly ITERATIONS simulation
\* steps and every x and y of its output is a finite number.
C10_AlwaysFinite ==
    (pc = "done" /\ Len(nodes) > 0) =>
        steps = ITERATIONS /\ AllFinite(positions)

\* C11: in every non-empty output map the least x and the least y over all
\* nodes are PAD, so every coordinate is a number not below PAD.
C11_MinIsPad ==
    (pc = "done" /\ positions # EmptyMap) =>
        /\ \E k \in DOMAIN positions : positions[k].x = PadF
        /\ \E k \in DOMAIN positions : positions[k].y = PadF
        /\ \A k \in DOMAIN positions :
               /\ IsFinite(positions[k].x) /\ ~Less[positions[k].x, PadF]
               /\ IsFinite(positions[k].y) /\ ~Less[positions[k].y, PadF]

\* C12: for exactly two nodes joined by one edge, the distance between the two
\* output positions is within 10% of the ideal spring length GAP * 1.6.
C12_TwoNodesNearIdeal ==
    (/\ pc = "done"
     /\ Len(nodes) = 2
     /\ Cardinality(KeySet(nodes)) = 2
     /\ Len(edges) = 1
     /\ Joins(nodes, edges[1])) =>
        \A k1, k2 \in DOMAIN positions :
            k1 # k2 => NearIdeal(Distance(positions[k1], positions[k2]))

C12_Witness ==
    /\ pc = "done"
    /\ nodes = <<LineageNode("s1", "b"), LineageNode("s1", "a")>>
    /\ edges = <<LineageEdge("s1", "a", "b")>>
    /\ DOMAIN positions = {"s1:a", "s1:b"}
    /\ NearIdeal(Distance(positions["s1:a"], positions["s1:b"]))

\* C13: for N >= 2 nodes with distinct keys and no edge, no pairwise distance
\* decreases from one iteration to the next, every final pairwise distance is
\* greater than the seeded one, and no two nodes end at the same coordinates.
C13_RepulsionOnlyGrows ==
    (pc \in {"loop", "done"} /\ Len(edges) = 0) =>
        \A k1, k2 \in DOMAIN snap[1].pos :
            k1 # k2 =>
                /\ ~Less[Distance(snap[1].pos[k1], snap[1].pos[k2]),
                         Distance(snap[1].prev[k1], snap[1].prev[k2])]
                /\ steps = ITERATIONS =>
                       Less[Distance(snap[1].seed[k1], snap[1].seed[k2]),
                            Distance(snap[1].pos[k1], snap[1].pos[k2])]
                /\ pc = "done" =>
                       <<positions[k1].x, positions[k1].y>>
                           # <<positions[k2].x, positions[k2].y>>

C13_Witness ==
    /\ pc = "done"
    /\ Len(edges) = 0
    /\ Len(nodes) = 3
    /\ Less[Distance(snap[1].seed["s1:a"], snap[1].seed["s1:c"]),
            Distance(positions["s1:a"], positions["s1:c"])]

\* C14: for nodes [A, B, C] of one service with the single edge A->B, the
\* final distance(A, B) is within 10% of GAP * 1.6 while distance(A, C) and
\* distance(B, C) are both greater than GAP * 1.6.
C14_SpringPairCloserThanFreeNode ==
    (/\ pc = "done"
     /\ nodes = Tables(3)
     /\ edges = <<LineageEdge("s1", "a", "b")>>) =>
        /\ NearIdeal(Distance(positions["s1:a"], positions["s1:b"]))
        /\ Less[Ideal, Distance(positions["s1:a"], positions["s1:c"])]
        /\ Less[Ideal, Distance(positions["s1:b"], positions["s1:c"])]

C14_Witness ==
    /\ pc = "done"
    /\ nodes = Tables(3)
    /\ edges = <<LineageEdge("s1", "a", "b")>>
    /\ steps = ITERATIONS
    /\ Less[Distance(positions["s1:a"], positions["s1:b"]),
            Distance(positions["s1:b"], positions["s1:c"])]

\* C15: edgePorts follows the dominant-axis rule: if |dx| > |dy| between the
\* card centres the connector leaves the source at the midpoint of its right
\* side (dx > 0) or left side (dx <= 0), otherwise at the midpoint of its bottom
\* side (dy > 0) or top side (dy <= 0), and enters the target at the midpoint of
\* the facing side; the target's centre is never on the other side of the exit.
C15_DominantAxisRule ==
    pc = "drawn" =>
        LET sp == snap[1].sp
            tp == snap[1].tp
            dx == CentreDx(sp, tp)
            dy == CentreDy(sp, tp)
            out == view.from
            right == out = [from |-> RightMid(sp), to |-> LeftMid(tp)]
            left == out = [from |-> LeftMid(sp), to |-> RightMid(tp)]
            bottom == out = [from |-> BottomMid(sp), to |-> TopMid(tp)]
            top == out = [from |-> TopMid(sp), to |-> BottomMid(tp)]
        IN  /\ (Less[MathAbs(dy), MathAbs(dx)] /\ Less[Zero, dx]) => right
            /\ (Less[MathAbs(dy), MathAbs(dx)] /\ ~Less[Zero, dx]) => left
            /\ (~Less[MathAbs(dy), MathAbs(dx)] /\ Less[Zero, dy]) => bottom
            /\ (~Less[MathAbs(dy), MathAbs(dx)] /\ ~Less[Zero, dy]) => top
            /\ right => ~Less[tp.x, sp.x]
            /\ left => ~Less[sp.x, tp.x]
            /\ bottom => ~Less[tp.y, sp.y]
            /\ top => ~Less[sp.y, tp.y]

C15_Witness ==
    /\ pc = "drawn"
    /\ Less[snap[1].tp.x, snap[1].sp.x]
    /\ Less[snap[1].tp.y, snap[1].sp.y]
    /\ Less[MathAbs(CentreDy(snap[1].sp, snap[1].tp)), MathAbs(CentreDx(snap[1].sp, snap[1].tp))]
    /\ view.from = [from |-> LeftMid(snap[1].sp), to |-> RightMid(snap[1].tp)]

\* C16: two nodes with the same id in different services get two different
\* keys and two separate entries of the position map, and SchemaGraph draws a
\* card for each; neither overwrites the other.
C16_SameIdTwoServices ==
    (pc \in {"loop", "done"} /\ nodes = CrossService) =>
        /\ snap[1].keys = <<"s1:a", "s2:a">>
        /\ DOMAIN snap[1].pos = {"s1:a", "s2:a"}
        /\ snap[1].seed["s1:a"] = SeedPoint(0, 2)
        /\ snap[1].seed["s2:a"] = SeedPoint(1, 2)
        /\ pc = "done" =>
               /\ DOMAIN positions = {"s1:a", "s2:a"}
               /\ positions["s1:a"] # positions["s2:a"]
               /\ DOMAIN Render(nodes, edges, positions, trig).cards = {"s1:a", "s2:a"}

C16_Witness ==
    /\ pc = "done"
    /\ nodes = CrossService
    /\ Cardinality(DOMAIN positions) = 2
    /\ Len(edges) = 0

\* The velocities of the locals loc sum to zero and the centroid of the
\* positions is where the centroid of the seed positions was (to within a pixel).
MomentumConserved(loc) ==
    /\ Close(SumFrom(loc.pos, loc.keys, "vx", 1), Zero)
    /\ Close(SumFrom(loc.pos, loc.keys, "vy", 1), Zero)
    /\ Close(SumFrom(loc.pos, loc.keys, "x", 1), SumFrom(loc.seed, loc.keys, "x", 1))
    /\ Close(SumFrom(loc.pos, loc.keys, "y", 1), SumFrom(loc.seed, loc.keys, "y", 1))

C18_SameCountsNoRun ==
    [][(/\ mounted
        /\ mounted'
        /\ ~(pc = "effect" /\ (deps = NoDeps \/ deps # <<Len(nodes), Len(edges)>>)))
          => /\ positions' = positions
             /\ steps' = steps
             /\ trig' = trig]_vars

C18_Witness ==
    /\ mounted
    /\ pc = "idle"
    /\ last = "skipped"
    /\ trig # <<nodes, edges>>
    /\ KeySet(trig[1]) \cap KeySet(nodes) = {}
    /\ positions # EmptyMap
    /\ positions = Layout(trig[1], trig[2]).positions

\* C19: for one edge between two placed nodes at distance d, the spring step
\* changes the two velocities toward each other when d > GAP * 1.6, away from
\* each other when d < GAP * 1.6 and not at all when d = GAP * 1.6; the change
\* has magnitude ATTRACT * |d - GAP * 1.6| on each endpoint.
C19_SpringDirection ==
    (pc = "pulled" /\ Len(edges) = 1) =>
        LET before == snap[1].prev
            after == snap[1].pos
            sk == NodeKey(edges[1].service, edges[1].source)
            tk == NodeKey(edges[1].service, edges[1].target)
            d == Distance(before[sk], before[tk])
            size == Mul[MathAbs(Sub[d, Ideal]), ATTRACT]
        IN  /\ Less[Ideal, d] =>
                  Less[Zero, Toward(after[sk], after[tk])] /\ Less[Zero, Toward(after[tk], after[sk])]
            /\ Less[d, Ideal] =>
                  Less[Toward(after[sk], after[tk]), Zero] /\ Less[Toward(after[tk], after[sk]), Zero]
            /\ d = Ideal => after = before
            /\ CloseRel(Speed(after[sk]), size)
            /\ CloseRel(Speed(after[tk]), size)
            /\ \A k \in DOMAIN after :
                   /\ <<after[k].x, after[k].y>> = <<before[k].x, before[k].y>>
                   /\ k \notin {sk, tk} => after[k] = before[k]

C19_Witness ==
    /\ pc = "pulled"
    /\ Len(edges) = 1
    /\ Less[Distance(snap[1].prev["s1:a"], snap[1].prev["s1:b"]), Ideal]
    /\ Less[Toward(snap[1].pos["s1:a"], snap[1].pos["s1:b"]), Zero]
    /\ Less[Toward(snap[1].pos["s1:b"], snap[1].pos["s1:a"]), Zero]

\* The edges between tables a and b, in either direction.
BetweenAB == {LineageEdge("s1", "a", "b"), LineageEdge("s1", "b", "a")}
\* The number of edges of es that are in S.
CountOf(es, S) == Cardinality({i \in DOMAIN es : es[i] \in S})
\* es with every edge between a and b pointing from a to b.
Forward(es) ==
    [i \in DOMAIN es |-> IF es[i] \in BetweenAB THEN LineageEdge("s1", "a", "b") ELSE es[i]]
\* The edges of es, those between a and b first.
Grouped(es) ==
    [i \in DOMAIN es |-> IF i <= CountOf(es, BetweenAB) THEN LineageEdge("s1", "a", "b")
                         ELSE LineageEdge("s1", "b", "c")]
\* u and v differ by less than one part in 256 of scale.
Near(u, v, scale) ==
    \/ u = v
    \/ /\ IsFinite(u) /\ IsFinite(v)
       /\ Less[Mul[MathAbs(Sub[u, v]), FromInt[256]], scale]

\* C20: every edge is a spring of its own: k edges between one pair of placed
\* nodes change the velocities by k times what one edge does, whichever way
\* each edge points, and the order of the edges in the list does not matter.
C20_EdgesAddUp ==
    (pc = "pulled") =>
        LET before == snap[1].prev
            after == snap[1].pos
            kab == CountOf(edges, BetweenAB)
            kbc == Len(edges) - kab
            ab == Spring(before, LineageEdge("s1", "a", "b"))
            bc == Spring(before, LineageEdge("s1", "b", "c"))
            scale == Add[Mul[FromInt[kab], Speed(ab["s1:a"])],
                         Mul[FromInt[kbc], Speed(bc["s1:c"])]]
            grouped == AttractTo([pos |-> before, done |-> 0], Grouped(edges), Len(edges)).pos
        IN  /\ after = AttractTo([pos |-> before, done |-> 0], Forward(edges), Len(edges)).pos
            /\ \A k \in DOMAIN after : \A f \in {"vx", "vy"} :
                   /\ Near(after[k][f], grouped[k][f], scale)
                   /\ Near(after[k][f],
                           Add[Mul[FromInt[kab], ab[k][f]], Mul[FromInt[kbc], bc[k][f]]],
                           scale)

C20_Witness ==
    /\ pc = "pulled"
    /\ edges = <<LineageEdge("s1", "b", "c"), LineageEdge("s1", "b", "a"),
                 LineageEdge("s1", "a", "b")>>
    /\ snap[1].pos["s1:a"].vx # Zero
    /\ snap[1].pos["s1:a"].vx =
           Mul[FromInt[2], Spring(snap[1].prev, LineageEdge("s1", "a", "b"))["s1:a"].vx]

\* The keys of ns are pairwise different.
DistinctKeys(ns) ==
    \A i, j \in DOMAIN ns :
        i # j => NodeKey(ns[i].service, ns[i].id) # NodeKey(ns[j].service, ns[j].id)

\* GAP * max(1, ceil(sqrt(n)) / 2), worked out in integers (twice the radius is
\* GAP * max(2, ceil(sqrt(n)))).
CircleRadius(n) ==
    Div[FromInt[GAP * (IF CeilSqrt(n) > 2 THEN CeilSqrt(n) ELSE 2)], FromInt[2]]

\* The point of the seed map for node i of the list (1-based).
SeedOf(i) == snap[1].seed[NodeKey(nodes[i].service, nodes[i].id)]

\* C21: seeding places node i of n at distance GAP * max(1, ceil(sqrt(n)) / 2)
\* from (400, 300), at angle 2 * pi * i / n, with zero velocity, so that n >= 2
\* nodes with distinct keys all start at different points.
C21_SeedOnCircle ==
    (pc = "loop" /\ steps = 0 /\ DistinctKeys(nodes)) =>
        LET n == Len(nodes)
            r == CircleRadius(n)
            origin == [x |-> FromInt[OriginX], y |-> FromInt[OriginY]]
        IN  /\ DOMAIN snap[1].seed = KeySet(nodes)
            /\ \A i \in 1..n :
                   /\ CloseRel(Distance(origin, SeedOf(i)), r)
                   /\ Close(SeedOf(i).x, Add[origin.x, Mul[r, MathCos(i - 1, n)]])
                   /\ Close(SeedOf(i).y, Add[origin.y, Mul[r, MathSin(i - 1, n)]])
                   /\ SeedOf(i).vx = Zero
                   /\ SeedOf(i).vy = Zero
            /\ \A i, j \in 1..n :
                   i # j => <<SeedOf(i).x, SeedOf(i).y>> # <<SeedOf(j).x, SeedOf(j).y>>

C21_Witness ==
    /\ pc = "loop"
    /\ steps = 0
    /\ Len(nodes) = SeedNodes
    /\ DistinctKeys(nodes)
    /\ SeedOf(1).y = FromInt[OriginY]
    /\ Less[FromInt[OriginY], SeedOf(2).y]

\* C22: after a plot request whose response yields SQL, the assistant message
\* added for that response is the one with autoRan = true and chartType =
\* detectChartType(text) in localMessages; no user message is marked autoRan.
C22_AssistantMarkedAutoRan ==
    /\ \A i \in DOMAIN localMessages :
           localMessages[i].role = "user" => ~localMessages[i].autoRan
    /\ \A i \in DOMAIN localMessages :
           (/\ i > 1
            /\ localMessages[i].role = "assistant"
            /\ ~Falsy(localMessages[i].suggested_sql)
            /\ IsPlotRequest(localMessages[i - 1].content))
               => /\ localMessages[i].autoRan
                  /\ localMessages[i].chartType = DetectChartType(localMessages[i - 1].content)

\* The messages come in pairs: a user message, then the assistant's answer to
\* it; the last pair lacks its answer exactly while the request is in flight.
ChatInOrder ==
    /\ \A i \in DOMAIN messages :
           messages[i].role = (IF i % 2 = 1 THEN "user" ELSE "assistant")
    /\ \A i \in DOMAIN messages : messages[i].role = "user" => ~IsBlank(messages[i].content)
    /\ Len(messages) % 2 = (IF reqs = {} THEN 0 ELSE 1)
    /\ \A req \in reqs : req.id = Len(messages) /\ req.text = messages[Len(messages)].content

\* C26: send does nothing for a blank text or while a request is loading;
\* otherwise it appends one user message and then one assistant message, in
\* that order; isLoading is true exactly while the request is in flight, at
\* most one request is in flight, and isLoading does not stay true forever.
C26_SendOneAtATime ==
    /\ [](Cardinality(reqs) <= 1)
    /\ [](isLoading <=> reqs # {})
    /\ []ChatInOrder
    /\ [](localMessages = SyncLocal(localMessages, messages))
    /\ (isLoading ~> ~isLoading)

C26_Witness ==
    /\ Len(messages) = MaxMessages
    /\ ~isLoading
    /\ messages[2].content = "Error: network"
    /\ messages[MaxMessages].content = "no query"

\* The status changes the block may make.
StatusSteps ==
    {<<"idle", "running">>, <<"error", "running">>, <<"running", "success">>,
     <<"running", "error">>, <<"success", "idle">>}

\* C27: the status of a SqlExecutionBlock only goes idle -> running and
\* error -> running (runQuery with a service selected), running -> success and
\* running -> error (the request's outcome) and success -> idle (Re-run);
\* runQuery without a service changes nothing; while running, result and error
\* are null; in state error the message is not null; at most one query is in
\* flight.
C27_StatusMachine ==
    /\ [][/\ status' # status => <<status, status'>> \in StatusSteps
          /\ (status' = "running" /\ status # "running") =>
                 /\ activeService # Null
                 /\ Cardinality(reqs') = Cardinality(reqs) + 1
          /\ (status = "running" /\ status' # "running") => reqs' = {}
          /\ reqs' # reqs => status' # status]_vars
    /\ [](status = "running" => blockResult = Null /\ error = Null)
    /\ [](status = "error" => ~Falsy(error))
    /\ [](Cardinality(reqs) <= 1)
    /\ [](status = "running" <=> reqs # {})

C27_Witness ==
    /\ status = "running"
    /\ chartType = "line"
    /\ \E req \in reqs : req.ct = "line" /\ req.service = "s2"

\* The values of a sequence.
Range(seq) == {seq[i] : i \in DOMAIN seq}

\* C24: removeConnection(name) removes the connection called name, its stored
\* credentials and profileCache[name], sets activeService to null when
\* activeService is name, and leaves every other connection, credential and
\* cache entry as it was.
C24_RemoveConnectionFrame ==
    [][\A req \in reqs :
         (req.kind = "delete" /\ DeleteResolves(req)) =>
             /\ connections' = SelectSeq(connections, LAMBDA c : c.service_name # req.name)
             /\ DOMAIN creds' = DOMAIN creds \ {req.name}
             /\ \A n \in DOMAIN creds' : creds'[n] = creds[n]
             /\ DOMAIN profileCache' = DOMAIN profileCache \ {req.name}
             /\ \A n \in DOMAIN profileCache' : profileCache'[n] = profileCache[n]
             /\ activeService' = (IF activeService = req.name THEN Null ELSE activeService)]_vars

\* C25: when runProfile for (serviceName, tableName) completes,
\* profileCache[serviceName] holds exactly one entry for tableName, the new
\* profile, and still holds every entry for another table that was in the cache
\* at that moment, those written while the request was in flight included.
C25_RunProfileMerges ==
    [][\A req \in reqs : \A p \in UNION {TableProfiles(t) : t \in TableNames} :
         (req.kind = "runProfile" /\ RunProfileResolves(req, p)) =>
             /\ req.svc \in DOMAIN profileCache'
             /\ {i \in DOMAIN profileCache'[req.svc] :
                    profileCache'[req.svc][i].table_name = req.table}
                    = {Len(profileCache'[req.svc])}
             /\ profileCache'[req.svc][Len(profileCache'[req.svc])] = p
             /\ \A x \in Range(GetOrEmpty(profileCache, req.svc)) :
                    x.table_name # req.table => x \in Range(profileCache'[req.svc])]_vars

\* C29: connections never holds two entries of one service_name: adding an
\* existing name merges into its entry in place, adding a new name appends one
\* entry.
C29_UniqueNames ==
    /\ [](\A i, j \in DOMAIN connections :
              connections[i].service_name = connections[j].service_name => i = j)
    /\ [][/\ Len(connections') > Len(connections) =>
                /\ connections' = Append(connections, connections'[Len(connections')])
                /\ connections'[Len(connections')].service_name \notin NamesOf(connections)
          /\ (Len(connections') = Len(connections) /\ connections' # connections) =>
                \E i \in DOMAIN connections :
                    /\ connections'[i].service_name = connections[i].service_name
                    /\ \A j \in DOMAIN connections \ {i} : connections'[j] = connections[j]]_vars

C29_Witness ==
    /\ Len(connections) = MaxConnections
    /\ connections[1] = StoredConnection("s1", "postgresql")
    /\ creds["s1"] = StoredConnection("s1", "postgresql")
    /\ connections[2].service_name = "s2"

\* C30: once no profile request is in flight, every key of profileCache is the
\* service_name of a connection in connections.
C30_CacheKeysAreConnections ==
    (\A req \in reqs : req.kind \notin {"load", "runProfile"}) =>
        DOMAIN profileCache \subseteq NamesOf(connections)

\* The poll ticks whose silent reload is in flight.
Reloading(rs) == {req \in rs : req.kind = "tick" /\ req.stage \in {"profile", "alerts"}}

\* C23: background polling always clears its flag: a tick that has set
\* isPolling sets it back to false when its silent reload ends, whether the
\* reload succeeds or fails, and isPolling is false whenever no poll-triggered
\* reload is in flight.
C23_PollingFlagCleared ==
    /\ [](Reloading(reqs) = {} => ~isPolling)
    /\ [][/\ (\E req \in Reloading(reqs) : \A r \in Reloading(reqs') : r.id # req.id)
                => ~isPolling'
          /\ (isPolling' /\ ~isPolling) => Cardinality(Reloading(reqs')) > Cardinality(Reloading(reqs))]_vars
    /\ (isPolling ~> ~isPolling)

C23_Witness ==
    /\ ~isPolling
    /\ reqs = {}
    /\ "s2" \in DOMAIN profileCache
    /\ profileCache["s2"] = <<Profile("t1", 2)>>

\* C28: once every lineage request in flight has completed, whatever the order,
\* every row of tables belongs to the selected service and loadingLineage is
\* null.
C28_TablesOfSelected ==
    reqs = {} =>
        /\ \A i \in DOMAIN tables : tables[i].service = selected
        /\ loadingLineage = Null

====
